---- MODULE Spec2Model ----
(***************************************************************************)
(* Model of the indicator engine of crypto_iot_project:                    *)
(*   core/ohlc_fetcher.py  clamp_range, fetch_ohlc_binance, _cg_get_json,   *)
(*                         fetch_ohlc_coingecko, fetch_ohlc                *)
(*   core/backtester.py    backtest_strategy, find_examples                *)
(*   app/api.py            get_ohlc (the caller that maps an empty frame), *)
(*                         run_backtest and backtest_examples (the path    *)
(*                         from rule signals to the composite signal, and  *)
(*                         the chart files of concurrent requests)         *)
(*   core/rules.py         combine_signals, macd_cross_signal,             *)
(*                         sma_crossover_signal, rsi_signal,               *)
(*                         bollinger_signal                                *)
(*   core/indicators.py    bollinger_signal, compute_sma, compute_ema,     *)
(*                         compute_rsi, compute_macd, compute_bollinger    *)
(* and of the alert engine:                                                *)
(*   alert_engine.py       handle_price, seconds_since, send_email         *)
(*                                                                         *)
(* Nine specifications share the module:                                   *)
(*   SpecClamp     clamp_range applied to bounded (start, end) pairs       *)
(*   SpecFetch     one fetch, from the call to its return, with the two    *)
(*                 upstream servers and task cancellation as environment   *)
(*   SpecBacktest  backtest_strategy, one bar of the frame per step        *)
(*   SpecRules     one call of a function of rules.py on bounded series    *)
(*   SpecExamples  find_examples, one example per step                     *)
(*   SpecIndicators  one call of a compute_* function of indicators.py     *)
(*   SpecPath      the signals of one rule through run_backtest and        *)
(*                 through backtest_examples, up to combine_signals        *)
(*   SpecAlert     handle_price over a sequence of price messages, with    *)
(*                 the clock, SMTP failures and restarts as environment    *)
(*   SpecCharts    two /backtest/examples requests, interleaved            *)
(* A specification leaves the variables of the others at their idle        *)
(* values.                                                                 *)
(*                                                                         *)
(* Time is counted in whole seconds since an epoch (the source works in    *)
(* datetimes and, towards Binance, in milliseconds; every model input is a *)
(* whole second, so _to_ms and pd.to_datetime(unit="ms") neither round nor *)
(* reorder anything). Money and returns are exact rationals <<num, den>>   *)
(* where the source has floats.                                            *)
(***************************************************************************)
EXTENDS Integers, Sequences, FiniteSets, TLC

VARIABLES
    \* ---- clamp_range
    c_pc, c_start, c_end, c_result,
    \* ---- fetch_ohlc / fetch_ohlc_binance / _cg_get_json / get_ohlc
    f_pc, entry, args_aware, start, end, symbol_ok, interval_ok, bn_bars,
    bn_ignores_window, cur_start, all_rows, bn_windows, bn_pages, bn_end,
    bn_status,
    attempt, cg_requests, cg_sleeps, cg_params, cg_statuses, cg_bars,
    outcome, result, source, err, http_status, cancel_seen, reqs_at_cancel,
    \* ---- backtest_strategy
    b_pc, df, fee_pct, signal, position_open, entry_price, entry_time,
    trades, capital, returns, equity, bt_result,
    \* ---- rules.py
    r_pc, r_fn, signals, logic, series1, series2, series3, rsi, low, high,
    r_result, r_err,
    \* ---- find_examples
    x_pc, ex_df, ex_signal, num_examples, lookback, lookforward,
    selected_idxs, examples,
    \* ---- indicators.py
    i_pc, i_fn, closes, window, macd_slow, macd_signal, i_result,
    \* ---- the signal path of /backtest/run and /backtest/examples
    s_pc, rule_signals, rule_logic, run_smoothed, run_combined,
    examples_combined,
    \* ---- alert_engine.py
    al_pc, clock, thresholds, alert_logs, emails,
    \* ---- the chart files of /backtest/examples
    ch_pc, requests, files, responses

clampVars == <<c_pc, c_start, c_end, c_result>>

fetchVars == <<f_pc, entry, args_aware, start, end, symbol_ok, interval_ok,
               bn_bars, bn_ignores_window, cur_start, all_rows, bn_windows,
               bn_pages, bn_end, bn_status,
               attempt, cg_requests, cg_sleeps, cg_params, cg_statuses, cg_bars,
               outcome, result, source, err, http_status, cancel_seen,
               reqs_at_cancel>>

btVars == <<b_pc, df, fee_pct, signal, position_open, entry_price,
            entry_time, trades, capital, returns, equity, bt_result>>

ruleVars == <<r_pc, r_fn, signals, logic, series1, series2, series3, rsi,
              low, high, r_result, r_err>>

exVars == <<x_pc, ex_df, ex_signal, num_examples, lookback, lookforward,
            selected_idxs, examples>>

indVars == <<i_pc, i_fn, closes, window, macd_slow, macd_signal, i_result>>

pathVars == <<s_pc, rule_signals, rule_logic, run_smoothed, run_combined,
              examples_combined>>

alertVars == <<al_pc, clock, thresholds, alert_logs, emails>>

chartVars == <<ch_pc, requests, files, responses>>

vars == <<clampVars, fetchVars, btVars, ruleVars, exVars, indVars, pathVars,
          alertVars, chartVars>>

-----------------------------------------------------------------------------
(* Small helpers.                                                          *)

Min(a, b) == IF a <= b THEN a ELSE b

Max(a, b) == IF a >= b THEN a ELSE b

Abs(a) == IF a < 0 THEN 0 - a ELSE a

RECURSIVE GCD(_, _)
GCD(a, b) == IF b = 0 THEN a ELSE GCD(b, a % b)

\* Python's Optional: None is the empty tuple, a value x is <<x>>.
None == <<>>

Some(x) == <<x>>

\* Exact rationals in lowest terms with a positive denominator.
Rat(n, d) ==
    LET s == IF d < 0 THEN 0 - 1 ELSE 1
        g == GCD(Abs(n), Abs(d))
    IN  <<(s * n) \div g, (s * d) \div g>>

RInt(n) == <<n, 1>>

RAdd(x, y) == Rat(x[1] * y[2] + y[1] * x[2], x[2] * y[2])

RSub(x, y) == Rat(x[1] * y[2] - y[1] * x[2], x[2] * y[2])

\* Cross-cancelled before multiplying, so intermediate products stay small.
RMul(x, y) ==
    LET g1 == GCD(Abs(x[1]), y[2])
        g2 == GCD(Abs(y[1]), x[2])
    IN  Rat((x[1] \div g1) * (y[1] \div g2), (x[2] \div g2) * (y[2] \div g1))

RDiv(x, y) == RMul(x, Rat(y[2], y[1]))

RLt(x, y) == x[1] * y[2] < y[1] * x[2]

RZero == RInt(0)

ROne == RInt(1)

-----------------------------------------------------------------------------
(* clamp_range (ohlc_fetcher.py 112-123).                                  *)

\* COINGECKO_MAX_LOOKBACK_DAYS, default 365.
MAX_LOOKBACK_DAYS == 365

\* datetime.date() and the time of day of an instant, in seconds.
DateOf(t) == t \div 86400

TimeOfDay(t) == t % 86400

\* end.replace(hour=23, minute=59, second=59, microsecond=0)
EndOfDay(t) == DateOf(t) * 86400 + (23 * 3600 + 59 * 60 + 59)

\* Mutant: the range is clamped without moving end to the end of its day.
clamp_range_keep_end(s, e) ==
    LET lo == IF s > e THEN e ELSE s
        hi == IF s > e THEN s ELSE e
    IN  IF DateOf(hi) - DateOf(lo) > MAX_LOOKBACK_DAYS
        THEN <<hi - MAX_LOOKBACK_DAYS * 86400, hi>>
        ELSE <<lo, hi>>

\* A naive datetime gets tzinfo UTC, which does not move the instant.
clamp_range(s, e) ==
    LET lo == IF s > e THEN e ELSE s
        hi == IF s > e THEN s ELSE e
        span_days == DateOf(hi) - DateOf(lo)
    IN  IF span_days > MAX_LOOKBACK_DAYS
        THEN LET e2 == EndOfDay(hi)
             IN  <<e2 - MAX_LOOKBACK_DAYS * 86400, e2>>
        ELSE <<lo, hi>>

\* Days offered to clamp_range: 0..MaxNearDays and the same days one
\* lookback later.
MaxNearDays == 1

ClampDays ==
    (0..MaxNearDays) \cup {MAX_LOOKBACK_DAYS + k : k \in 0..MaxNearDays}

ClampTimesOfDay == {0, 1, 43200, 86399}

ClampTimes == {d * 86400 + s : d \in ClampDays, s \in ClampTimesOfDay}

ClampIdle ==
    /\ c_pc = "off"
    /\ c_start = 0
    /\ c_end = 0
    /\ c_result = None

ClampInit ==
    /\ c_pc = "call"
    /\ c_start \in ClampTimes
    /\ c_end \in ClampTimes
    /\ c_result = None

ClampCall ==
    /\ c_pc = "call"
    /\ c_result' = clamp_range(c_start, c_end)
    /\ c_pc' = "done"
    /\ UNCHANGED <<c_start, c_end>>
    /\ UNCHANGED <<fetchVars, btVars, ruleVars, exVars, indVars,
                 pathVars, alertVars, chartVars>>

-----------------------------------------------------------------------------
(* Properties of clamp_range, checked under SpecClamp.                     *)

\* The requested range with start and end in order.
ClampLo == Min(c_start, c_end)

ClampHi == Max(c_start, c_end)

LookbackSecs == MAX_LOOKBACK_DAYS * 86400

\* C6 as stated: a range whose span exceeds the lookback comes back with
\* the requested end unchanged and start = end - MAX_LOOKBACK_DAYS days,
\* and a span within the lookback comes back unchanged (after the swap).
\* The span is read the way the code measures it, in calendar days.
C6_ClampKeepsEnd ==
    c_pc = "done" =>
        /\ DateOf(ClampHi) - DateOf(ClampLo) > MAX_LOOKBACK_DAYS =>
               c_result = <<ClampHi - LookbackSecs, ClampHi>>
        /\ ClampHi - ClampLo <= LookbackSecs => c_result = <<ClampLo, ClampHi>>

\* C6 as amended: when the calendar days of start and end (after the swap)
\* lie more than MAX_LOOKBACK_DAYS apart, clamp_range returns end moved to
\* 23:59:59 of its own day and start = that moved end - MAX_LOOKBACK_DAYS
\* days; otherwise, which covers every span within the lookback, it returns
\* start and end unchanged (after the swap).
C6_ClampToEndOfDay ==
    c_pc = "done" =>
        /\ DateOf(ClampHi) - DateOf(ClampLo) > MAX_LOOKBACK_DAYS =>
               /\ DateOf(c_result[2]) = DateOf(ClampHi)
               /\ TimeOfDay(c_result[2]) = 86399
               /\ c_result[1] = c_result[2] - LookbackSecs
        /\ DateOf(ClampHi) - DateOf(ClampLo) <= MAX_LOOKBACK_DAYS =>
               c_result = <<ClampLo, ClampHi>>
        /\ ClampHi - ClampLo <= LookbackSecs => c_result = <<ClampLo, ClampHi>>

\* A swapped range was cut and its end moved.
C6_Witness ==
    /\ c_pc = "done"
    /\ c_start > c_end
    /\ DateOf(ClampHi) - DateOf(ClampLo) > MAX_LOOKBACK_DAYS
    /\ c_result[2] > ClampHi

-----------------------------------------------------------------------------
(* backtest_strategy (backtester.py 49-117).                               *)
(* df is the close column of the frame, bar i carrying timestamp i (the    *)
(* index of a Series is strictly increasing and unique); signal holds the  *)
(* values signal.loc[ts] read so far.                                      *)

\* initial_capital: float = 10000.0
initial_capital == 10000

\* Longest frame offered to the backtest.
MaxBars == 5

\* fee_pct values offered: 0 and 25 %.
FeeChoices == {<<0, 1>>, <<1, 4>>}

\* The closes of the scenario of the specification, repeated cyclically.
ExampleCloses == <<100, 105, 95, 110, 90>>

ExampleSeries(n) ==
    [i \in 1..n |-> ExampleCloses[((i - 1) % Len(ExampleCloses)) + 1]]

\* Frames of n closes that sit at one level up to bar c and at another
\* after it (c = n: a flat frame).
StepSeries(n) ==
    {[i \in 1..n |-> IF i <= c THEN lv[1] ELSE lv[2]] :
        c \in 1..n, lv \in {<<100, 110>>, <<110, 100>>}}

CloseSeries(n) == {ExampleSeries(n)} \cup StepSeries(n)

SignalValues == {0 - 1, 0, 1}

\* Trade(entry_time, exit_time, entry_price, exit_price, profit_pct)
Trade(et, xt, ep, xp, pp) ==
    [entry_time |-> et, exit_time |-> xt, entry_price |-> ep,
     exit_price |-> xp, profit_pct |-> pp]

\* Python truthiness of Optional[float]: None and 0.0 are false.
Truthy(opt) == opt # None /\ opt[1] # RZero

\* Line 90 as written: last_price has already been set to price (line 72).
BarReturn(price, last_price) ==
    IF last_price # RZero
    THEN RDiv(RSub(price, last_price), last_price)
    ELSE RZero

\* Mutant: the close forgets to reset the position (lines 84-86 dropped).
AfterClose_stays_open(ep, et) == [open |-> TRUE, price |-> ep, time |-> et]

\* Position after a close, lines 84-86, given the position before it.
AfterClose(ep, et) == [open |-> FALSE, price |-> None, time |-> None]

\* Mutant: a +1 while Long re-enters at the current bar.
OpensPosition_always(sig, is_open) == sig > 0

\* Guard of line 74.
OpensPosition(sig, is_open) == sig > 0 /\ ~is_open

\* Mutant: a bar without a buy signal closes the position.
ClosesPosition_unless_buy(sig, is_open) == sig <= 0 /\ is_open

\* Guard of line 79.
ClosesPosition(sig, is_open) == sig < 0 /\ is_open

\* Mutant: the fee is added to the exit price as it is to the entry price.
ExitPrice_fee_added(price, fee) == RMul(price, RAdd(ROne, fee))

\* Line 80.
ExitPrice(price, fee) == RMul(price, RSub(ROne, fee))

BtIdle ==
    /\ b_pc = "off"
    /\ df = <<>>
    /\ fee_pct = RZero
    /\ signal = <<>>
    /\ position_open = FALSE
    /\ entry_price = None
    /\ entry_time = None
    /\ trades = <<>>
    /\ capital = RZero
    /\ returns = <<>>
    /\ equity = <<>>
    /\ bt_result = None

BtInit ==
    /\ b_pc = "loop"
    /\ \E n \in 0..MaxBars : df \in CloseSeries(n)
    /\ fee_pct \in FeeChoices
    /\ signal = <<>>
    /\ position_open = FALSE
    /\ entry_price = None
    /\ entry_time = None
    /\ trades = <<>>
    /\ capital = RInt(initial_capital)
    /\ returns = <<>>
    /\ equity = <<>>
    /\ bt_result = None

\* One iteration of the loop of lines 69-93.
BtStep ==
    /\ b_pc = "loop"
    /\ Len(signal) < Len(df)
    /\ \E sig \in SignalValues :
         LET ts == Len(signal) + 1
             price == RInt(df[ts])
             last_price == price
             opening == OpensPosition(sig, position_open)
             closing == ~opening /\ ClosesPosition(sig, position_open)
             exit_price == ExitPrice(price, fee_pct)
             profit_pct ==
                 RDiv(RSub(exit_price, entry_price[1]), entry_price[1])
             pos == IF opening
                    THEN [open |-> TRUE,
                          price |-> Some(RMul(price, RAdd(ROne, fee_pct))),
                          time |-> Some(ts)]
                    ELSE IF closing
                    THEN AfterClose(entry_price, entry_time)
                    ELSE [open |-> position_open, price |-> entry_price,
                          time |-> entry_time]
         IN  /\ signal' = Append(signal, sig)
             /\ position_open' = pos.open
             /\ entry_price' = pos.price
             /\ entry_time' = pos.time
             /\ trades' = IF closing
                          THEN Append(trades,
                                      Trade(entry_time[1], ts, entry_price[1],
                                            exit_price, profit_pct))
                          ELSE trades
             /\ capital' = IF closing
                           THEN RMul(capital, RAdd(ROne, profit_pct))
                           ELSE capital
             /\ returns' = Append(returns,
                                  IF pos.open /\ Truthy(pos.price)
                                  THEN BarReturn(price, last_price)
                                  ELSE RZero)
             /\ equity' = Append(equity, capital')
    /\ UNCHANGED <<b_pc, df, fee_pct, bt_result>>
    /\ UNCHANGED <<clampVars, fetchVars, ruleVars, exVars, indVars,
                 pathVars, alertVars, chartVars>>

\* Series.cumprod(): the running products of the elements of rs.
CumProd(rs) ==
    LET prod[k \in 0..Len(rs)] ==
            IF k = 0 THEN ROne ELSE RMul(prod[k - 1], rs[k])
    IN  [k \in 1..Len(rs) |-> prod[k]]

\* (1 + returns.fillna(0)).cumprod(), line 46.
_compute_equity_curve(rs) ==
    CumProd([k \in 1..Len(rs) |-> RAdd(ROne, rs[k])])

\* Mutant: a trade that breaks even counts as won.
Wins_break_even(ts) == {k \in 1..Len(ts) : ts[k].profit_pct[1] >= 0}

\* Line 98: the trades with profit_pct > 0.
Wins(ts) == {k \in 1..Len(ts) : ts[k].profit_pct[1] > 0}

\* Mutant: the ratio of final to initial capital, the "- 1" dropped.
Pnl_ratio(cap) == RDiv(cap, RInt(initial_capital))

\* Line 97.
Pnl(cap) == RSub(RDiv(cap, RInt(initial_capital)), ROne)

\* Lines 94-117, once the frame is exhausted.
BtFinish ==
    /\ b_pc = "loop"
    /\ Len(signal) = Len(df)
    /\ LET eq_curve == _compute_equity_curve(returns)
       IN  bt_result' = Some(
             [trades |-> trades,
              equity_curve |->
                  [k \in 1..Len(eq_curve) |->
                      RMul(eq_curve[k], RInt(initial_capital))],
              pnl |-> Pnl(capital),
              win_rate |-> IF trades # <<>>
                           THEN Rat(Cardinality(Wins(trades)), Len(trades))
                           ELSE RZero])
    /\ b_pc' = "done"
    /\ UNCHANGED <<df, fee_pct, signal, position_open, entry_price,
                   entry_time, trades, capital, returns, equity>>
    /\ UNCHANGED <<clampVars, fetchVars, ruleVars, exVars, indVars,
                 pathVars, alertVars, chartVars>>

-----------------------------------------------------------------------------
(* Properties of backtest_strategy, checked under SpecBacktest.            *)

MinOf(S) == CHOOSE x \in S : \A y \in S : x <= y

\* The first bar at or after from whose signal is above (below) zero, 0 if
\* there is none.
FirstBuy(sig, from) ==
    LET S == {i \in from..Len(sig) : sig[i] > 0}
    IN  IF S = {} THEN 0 ELSE MinOf(S)

FirstSell(sig, from) ==
    LET S == {i \in from..Len(sig) : sig[i] < 0}
    IN  IF S = {} THEN 0 ELSE MinOf(S)

\* The completed <<entry bar, exit bar>> pairs of a signal sequence read
\* from bar from on: enter at the first buy, leave at the first sell after
\* it, and start again after that sell.
RECURSIVE RoundTrips(_, _)
RoundTrips(sig, from) ==
    LET e == FirstBuy(sig, from)
        x == IF e = 0 THEN 0 ELSE FirstSell(sig, e + 1)
    IN  IF e = 0 \/ x = 0 THEN <<>>
        ELSE <<<<e, x>>>> \o RoundTrips(sig, x + 1)

\* The entry bar of the position still open at the end of sig, 0 if none.
RECURSIVE PendingEntry(_, _)
PendingEntry(sig, from) ==
    LET e == FirstBuy(sig, from)
        x == IF e = 0 THEN 0 ELSE FirstSell(sig, e + 1)
    IN  IF e = 0 THEN 0
        ELSE IF x = 0 THEN e
        ELSE PendingEntry(sig, x + 1)

TradeBars(ts) == [k \in 1..Len(ts) |-> <<ts[k].entry_time, ts[k].exit_time>>]

ExampleSignal == <<1, 0, 0 - 1, 1, 0 - 1>>

\* C8: the backtest is a two-state machine that starts Flat: after any
\* prefix of the bars the emitted trades are exactly the round trips of the
\* signal read so far (entry at the first signal > 0 bar after the previous
\* exit or the start, exit at the first signal < 0 bar after that entry),
\* the position is Long exactly when an entry is still waiting for its
\* exit, and a bar changes the position or the trade list only by opening
\* from Flat on signal > 0 or by closing from Long on signal < 0, the close
\* emitting exactly one trade. For closes [100,105,95,110,90], signals
\* [+1,0,-1,+1,-1] and fee 0 the trades are 100->95 and 110->90.
C8_TwoStateMachine ==
    b_pc # "off" =>
        /\ TradeBars(trades) = RoundTrips(signal, 1)
        /\ position_open = (PendingEntry(signal, 1) # 0)
        /\ position_open => entry_time = Some(PendingEntry(signal, 1))
        /\ Len(signal) > 0 =>
             LET n == Len(signal)
                 before == SubSeq(signal, 1, n - 1)
                 was_open == PendingEntry(before, 1) # 0
                 emitted == Len(trades) - Len(RoundTrips(before, 1))
             IN  /\ signal[n] > 0 /\ ~was_open => position_open /\ emitted = 0
                 /\ signal[n] < 0 /\ was_open => ~position_open /\ emitted = 1
                 /\ ~(signal[n] > 0 /\ ~was_open)
                        /\ ~(signal[n] < 0 /\ was_open)
                    => position_open = was_open /\ emitted = 0
        /\ (df = ExampleCloses /\ signal = ExampleSignal /\ fee_pct = RZero)
           => /\ Len(trades) = 2
              /\ trades[1].entry_price = RInt(100)
              /\ trades[1].exit_price = RInt(95)
              /\ trades[2].entry_price = RInt(110)
              /\ trades[2].exit_price = RInt(90)

\* The scenario has run to its end with its two trades.
C8_Witness ==
    /\ b_pc = "done"
    /\ df = ExampleCloses
    /\ signal = ExampleSignal
    /\ fee_pct = RZero
    /\ Len(trades) = 2

\* C9: the emitted trades are chronological and do not overlap: each has
\* entry_time < exit_time, each exit_time is strictly before the next
\* entry_time, and the one position that may be open was entered strictly
\* after the last exit; while Flat no entry is recorded.
C9_TradesDoNotOverlap ==
    b_pc # "off" =>
        /\ \A k \in 1..Len(trades) : trades[k].entry_time < trades[k].exit_time
        /\ \A k \in 1..(Len(trades) - 1) :
               trades[k].exit_time < trades[k + 1].entry_time
        /\ position_open =>
               /\ entry_time # None
               /\ entry_price # None
               /\ trades # <<>> =>
                      trades[Len(trades)].exit_time < entry_time[1]
        /\ ~position_open => entry_time = None /\ entry_price = None

\* Two trades have been emitted and a third position is open.
C9_Witness ==
    /\ Len(trades) = 2
    /\ position_open

\* The close of bar k of the frame.
Close(k) == RInt(df[k])

\* Whether the position is Long once bar k has been processed.
LongAt(k) == PendingEntry(SubSeq(signal, 1, k), 1) # 0

\* The per-bar return the specification describes: while Long the change
\* of the close from the previous bar's close, otherwise 0.
DescribedReturn(k) ==
    IF k > 1 /\ LongAt(k)
    THEN RDiv(RSub(Close(k), Close(k - 1)), Close(k - 1))
    ELSE RZero

DescribedEquity ==
    LET curve == CumProd([k \in 1..Len(df) |-> RAdd(ROne, DescribedReturn(k))])
    IN  [k \in 1..Len(df) |-> RMul(RInt(initial_capital), curve[k])]

\* C10: the reported equity curve is initial_capital times the cumulative
\* product of (1 + r_t), r_t being the change of the close from the
\* previous bar's close while Long and 0 while Flat.
C10_EquityFollowsPrice ==
    b_pc = "done" => bt_result[1].equity_curve = DescribedEquity

\* The product of (1 + profit_pct) over the trades ts.
RECURSIVE GrowthOf(_)
GrowthOf(ts) ==
    IF ts = <<>> THEN ROne
    ELSE RMul(GrowthOf(SubSeq(ts, 1, Len(ts) - 1)),
              RAdd(ROne, ts[Len(ts)].profit_pct))

\* C11: every emitted Trade has entry_price = entry bar close * (1 + fee_pct),
\* exit_price = exit bar close * (1 - fee_pct) and profit_pct =
\* (exit_price - entry_price) / entry_price, and the reported pnl is the
\* product over the emitted trades of (1 + profit_pct), minus 1.
C11_TradePricesAndPnl ==
    /\ \A k \in 1..Len(trades) :
         LET t == trades[k]
         IN  /\ t.entry_price = RMul(Close(t.entry_time), RAdd(ROne, fee_pct))
             /\ t.exit_price = RMul(Close(t.exit_time), RSub(ROne, fee_pct))
             /\ t.profit_pct =
                    RDiv(RSub(t.exit_price, t.entry_price), t.entry_price)
    /\ b_pc = "done" => bt_result[1].pnl = RSub(GrowthOf(trades), ROne)

\* Two trades were emitted with a fee, over closes that changed, and bars
\* on which no trade closed.
C11_Witness ==
    /\ b_pc = "done"
    /\ Len(trades) = 2
    /\ fee_pct # RZero
    /\ Len(df) > 4
    /\ trades[1].profit_pct # trades[2].profit_pct
    /\ bt_result[1].pnl # RZero

\* C12: win_rate is the number of emitted trades with profit_pct > 0 divided
\* by the number of emitted trades, and 0 when no trade was emitted; a trade
\* with profit_pct = 0 is not counted as won.
C12_WinRate ==
    b_pc = "done" =>
        LET won == {k \in 1..Len(trades) : RLt(RZero, trades[k].profit_pct)}
        IN  bt_result[1].win_rate =
                IF Len(trades) = 0 THEN RZero
                ELSE Rat(Cardinality(won), Len(trades))

\* One trade won, one broke even, and the win rate is one half.
C12_Witness ==
    /\ b_pc = "done"
    /\ Len(trades) = 2
    /\ \E k \in 1..2 : trades[k].profit_pct = RZero
    /\ \E k \in 1..2 : RLt(RZero, trades[k].profit_pct)
    /\ bt_result[1].win_rate = Rat(1, 2)

\* C13: a backtest whose signal is 0 at every bar emits no trade and
\* reports pnl = 0 and win_rate = 0.
C13_ZeroSignal ==
    (b_pc = "done" /\ \A k \in 1..Len(signal) : signal[k] = 0) =>
        /\ bt_result[1].trades = <<>>
        /\ bt_result[1].pnl = RZero
        /\ bt_result[1].win_rate = RZero

\* A frame of several bars whose close changes was run with a signal
\* that is 0 throughout.
C13_Witness ==
    /\ b_pc = "done"
    /\ Len(df) >= 3
    /\ \E k \in 1..Len(df) : df[k] # df[1]
    /\ \A k \in 1..Len(signal) : signal[k] = 0
    /\ bt_result[1].trades = <<>>

\* C31: a position still open after the final bar is not force-closed: it
\* yields no Trade and leaves capital and pnl alone, so the reported trades
\* are as many as the completed entry/exit pairs, each ending at a bar
\* with signal < 0, and a signal that never goes below 0 yields no trade.
C31_OpenPositionNotForceClosed ==
    b_pc = "done" =>
        LET r == bt_result[1]
            pending == PendingEntry(signal, 1)
        IN  /\ Len(r.trades) = Len(RoundTrips(signal, 1))
            /\ \A k \in 1..Len(r.trades) :
                   /\ signal[r.trades[k].exit_time] < 0
                   /\ r.trades[k].entry_time # pending
            /\ capital = RMul(RInt(initial_capital), GrowthOf(r.trades))
            /\ r.pnl = RSub(GrowthOf(r.trades), ROne)
            /\ pending # 0 => position_open /\ entry_time = Some(pending)
            /\ (\A k \in 1..Len(signal) : signal[k] >= 0) =>
                   r.trades = <<>> /\ r.pnl = RZero

\* The run ended Long after one completed trade, at a close other than
\* the one the open position was entered at.
C31_Witness ==
    /\ b_pc = "done"
    /\ position_open
    /\ Len(bt_result[1].trades) = 1
    /\ entry_time[1] < Len(df)
    /\ df[Len(df)] # df[entry_time[1]]

-----------------------------------------------------------------------------
(* The fetcher (ohlc_fetcher.py 150-369) and its HTTP caller get_ohlc      *)
(* (api.py 112-133).                                                       *)
(*                                                                         *)
(* f_pc is the await the coroutine is suspended at:                        *)
(*   "call"      the call has not started                                  *)
(*   "bn_get"    a Binance page request is in flight (line 160)            *)
(*   "bn_sleep"  asyncio.sleep(0.12) between pages (line 206)              *)
(*   "cg_get"    a CoinGecko request is in flight (line 241)               *)
(*   "cg_sleep"  the backoff sleep (line 271)                              *)
(*   "done"      the called function has returned or raised                *)
(*   "responded" get_ohlc has answered the HTTP request                    *)
(* entry is the function called: fetch_ohlc, or fetch_ohlc_binance called  *)
(* on its own, then with naive or with tz-aware datetimes (args_aware).    *)
(* fetch_ohlc always hands fetch_ohlc_binance tz-aware datetimes           *)
(* (start_utc.to_pydatetime(), line 343).                                  *)

\* COINGECKO_MAX_RETRIES, default 3.
CG_MAX_RETRIES == 3

\* limit = 1000 in the source; the model pages in windows of Limit bars.
Limit == 2

\* Hours of the near grid of instants.
MaxHour == 2

\* The interval of every request is "1h" when it can be normalised.
interval_ms == 60 * 60

\* The near grid starts one day more than the lookback after instant 0, so
\* that a request from instant 0 has a span that clamp_range cuts.
NearBase == (MAX_LOOKBACK_DAYS + 1) * 86400

NearTimes == {NearBase + h * 3600 : h \in 0..MaxHour}

FetchTimes == {0} \cup NearTimes

\* Price points CoinGecko may return: on the hour, one on a half hour, and
\* one on the day after instant 0, older than any clamped range.
CgPointTimes == NearTimes \cup {NearBase + 1800, 86400}

BnStatuses == {200, 400, 404, 429, 403, 500}

CgStatuses == {200, 401, 404, 429, 500}

\* The elements of a finite set of integers in increasing order.
RECURSIVE SortedSeq(_)
SortedSeq(S) ==
    IF S = {} THEN <<>>
    ELSE LET m == CHOOSE x \in S : \A y \in S : x <= y
         IN  <<m>> \o SortedSeq(S \ {m})

Range(q) == {q[k] : k \in 1..Len(q)}

FirstN(q, n) == SubSeq(q, 1, Min(n, Len(q)))

\* What the exchange answers to startTime=cs, endTime=ce, limit=Limit: its
\* bars with open time in the window, oldest first, at most Limit of them.
\* A server that ignores the window answers with its oldest bars each time.
BinancePage(cs, ce) ==
    IF bn_ignores_window
    THEN FirstN(SortedSeq(bn_bars), Limit)
    ELSE FirstN(SortedSeq({b \in bn_bars : cs <= b /\ b <= ce}), Limit)

\* Mutant: the window start is moved on whatever the page held.
Advances_unchecked(next_start, cs) == TRUE

\* Line 203, negated: the next window starts after the current one.
Advances(next_start, cs) == next_start > cs

\* Mutant: the next window starts at the last bar fetched, not after it.
NextStart_at_last_bar(rows) == rows[Len(rows)]

\* Lines 201-202: one interval after the open time of the page's last bar.
NextStart(rows) == rows[Len(rows)] + interval_ms

\* Mutant: the mask keeps every bar from lo on, the upper test dropped.
FilterRange_no_upper(q, lo, hi) == SelectSeq(q, LAMBDA t : lo <= t)

\* df.loc[(index >= start) & (index <= end)]
FilterRange(q, lo, hi) == SelectSeq(q, LAMBDA t : lo <= t /\ t <= hi)

\* Mutant: the CoinGecko frame is returned without the mask of line 368.
FilterCoinGecko_none(q, lo, hi) == q

\* Lines 368-369.
FilterCoinGecko(q, lo, hi) == FilterRange(q, lo, hi)

\* prices.resample(rule).ohlc().dropna(): one bar per bucket that holds a
\* price point, stamped with the start of the bucket.
Resample(points, interval_cg) ==
    LET bucket == IF interval_cg = "hourly" THEN 3600 ELSE 86400
    IN  SortedSeq({(t \div bucket) * bucket : t \in points})

\* Mutant: a bare except, which also catches CancelledError.
Catches_everything(exc) == TRUE

\* except Exception (line 346): asyncio.CancelledError derives from
\* BaseException, the HTTP and value errors from Exception.
Catches(exc) == exc \in {"HTTPStatusError", "ValueError", "RuntimeError"}

\* Mutant: a rate limit is re-raised like a server error.
AbortsPrimary_not_429(status) == status \in {400, 404}

\* Line 193: the statuses that end the primary attempt with an empty frame.
AbortsPrimary(status) == status \in {400, 404, 429}

\* Mutant: only a rate limit is retried, a server error is raised at once.
Retryable_only_429(status) == status = 429

\* Mutant: every failed status other than 401 is retried.
Retryable_any_failure(status) == status >= 400

\* Line 258.
Retryable(status) == status = 429 \/ (500 <= status /\ status < 600)

\* Line 269, CG_BACKOFF_BASE_SECS = 1.5 as the rational 3/2.
BackoffDelay(a) == RMul(<<3, 2>>, RInt(2 ^ (a - 1)))

\* Lines 350-357 and 294-298: the parameters of the CoinGecko request.
CoinGeckoParams(s, e) ==
    LET cg == clamp_range(s, e)
        delta_days == (cg[2] - cg[1]) \div 86400
        days == Min(delta_days + 1, 730)
    IN  [days |-> Max(1, Min(days, MAX_LOOKBACK_DAYS)),
         interval |-> IF delta_days <= 90 THEN "hourly" ELSE "daily",
         range |-> cg]

NoError == [type |-> "", status |-> 0]

FetchIdle ==
    /\ f_pc = "off"
    /\ entry = ""
    /\ args_aware = FALSE
    /\ start = 0
    /\ end = 0
    /\ symbol_ok = FALSE
    /\ interval_ok = FALSE
    /\ bn_bars = {}
    /\ bn_ignores_window = FALSE
    /\ bn_pages = <<>>
    /\ cur_start = 0
    /\ all_rows = <<>>
    /\ bn_windows = <<>>
    /\ bn_end = ""
    /\ bn_status = 0
    /\ attempt = 0
    /\ cg_requests = 0
    /\ cg_sleeps = <<>>
    /\ cg_params = None
    /\ cg_statuses = <<>>
    /\ cg_bars = None
    /\ outcome = "pending"
    /\ result = <<>>
    /\ source = ""
    /\ err = NoError
    /\ http_status = 0
    /\ cancel_seen = FALSE
    /\ reqs_at_cancel = 0

FetchInit ==
    /\ f_pc = "call"
    /\ \/ entry = "fetch_ohlc" /\ args_aware = TRUE
       \/ entry = "fetch_ohlc_binance" /\ args_aware \in BOOLEAN
    /\ start \in FetchTimes
    /\ end \in NearTimes
    /\ symbol_ok \in BOOLEAN
    /\ interval_ok \in BOOLEAN
    /\ bn_bars \in SUBSET NearTimes
    /\ bn_ignores_window \in BOOLEAN
    /\ bn_pages = <<>>
    /\ cur_start = 0
    /\ all_rows = <<>>
    /\ bn_windows = <<>>
    /\ bn_end = ""
    /\ bn_status = 0
    /\ attempt = 0
    /\ cg_requests = 0
    /\ cg_sleeps = <<>>
    /\ cg_params = None
    /\ cg_statuses = <<>>
    /\ cg_bars = None
    /\ outcome = "pending"
    /\ result = <<>>
    /\ source = ""
    /\ err = NoError
    /\ http_status = 0
    /\ cancel_seen = FALSE
    /\ reqs_at_cancel = 0

inputVars == <<entry, args_aware, start, end, symbol_ok, interval_ok, bn_bars,
               bn_ignores_window>>

bnGroup == <<cur_start, all_rows, bn_windows, bn_pages, bn_end, bn_status>>

cgGroup == <<attempt, cg_requests, cg_sleeps, cg_params, cg_statuses, cg_bars>>

outGroup == <<outcome, result, source, err>>

\* The called function returns the frame res, produced by src.
Return(res, src) ==
    /\ f_pc' = "done"
    /\ outcome' = "ok"
    /\ result' = res
    /\ source' = src
    /\ err' = NoError

\* The called function raises; a CancelledError ends it as cancelled.
Raise(type, status) ==
    /\ f_pc' = "done"
    /\ outcome' = IF type = "CancelledError" THEN "cancelled" ELSE "error"
    /\ result' = <<>>
    /\ source' = ""
    /\ err' = [type |-> type, status |-> status]

\* Lines 350-359, 294-300 and 235-241: up to the first CoinGecko request.
StartCoinGecko ==
    /\ cg_params' = Some(CoinGeckoParams(start, end))
    /\ attempt' = 1
    /\ cg_requests' = cg_requests + 1
    /\ f_pc' = "cg_get"
    /\ UNCHANGED <<cg_sleeps, cg_statuses, cg_bars, outGroup>>

\* Mutant: fetch_ohlc returns whatever the primary attempt returned, the
\* test of line 344 dropped.
PrimaryReturned_always(rows) == Return(rows, "binance") /\ UNCHANGED cgGroup

\* fetch_ohlc_binance has returned rows: lines 343-345 when fetch_ohlc
\* called it, the final return when it was called on its own.
PrimaryReturned(rows) ==
    IF entry = "fetch_ohlc_binance" \/ rows # <<>>
    THEN Return(rows, "binance") /\ UNCHANGED cgGroup
    ELSE StartCoinGecko

\* fetch_ohlc_binance has raised exc: lines 346-347.
PrimaryRaised(exc, status) ==
    IF entry = "fetch_ohlc" /\ Catches(exc)
    THEN StartCoinGecko
    ELSE Raise(exc, status) /\ UNCHANGED cgGroup

\* Lines 208-220. pd.Timestamp(start, tz="UTC") raises ValueError when
\* start already carries a tzinfo ("Cannot pass a datetime or Timestamp
\* with tzinfo with the tz parameter"), and localises a naive start.
BinanceFrame(rows) ==
    IF rows = <<>>
    THEN bn_end' = "empty" /\ PrimaryReturned(<<>>)
    ELSE IF args_aware
    THEN bn_end' = "value_error" /\ PrimaryRaised("ValueError", 0)
    ELSE /\ bn_end' = "returned"
         /\ PrimaryReturned(FilterRange(rows, start, end))

\* Lines 189-191: the request for the window that starts at cs.
SendPage(cs) ==
    /\ cur_start' = cs
    /\ bn_windows' =
           Append(bn_windows, <<cs, Min(cs + interval_ms * Limit - 1, end)>>)
    /\ f_pc' = "bn_get"
    /\ UNCHANGED <<cgGroup, outGroup>>

\* fetch_ohlc lines 336-343 and fetch_ohlc_binance lines 171-191.
FetchCall ==
    /\ f_pc = "call"
    /\ IF entry = "fetch_ohlc" /\ start >= end
       THEN Return(<<>>, "") /\ UNCHANGED <<bnGroup, cgGroup>>
       ELSE IF ~symbol_ok
       THEN /\ bn_end' = "no_symbol"
            /\ UNCHANGED <<cur_start, all_rows, bn_windows, bn_pages,
                           bn_status>>
            /\ PrimaryReturned(<<>>)
       ELSE IF ~interval_ok
       THEN /\ bn_end' = "no_interval"
            /\ UNCHANGED <<cur_start, all_rows, bn_windows, bn_pages,
                           bn_status>>
            /\ PrimaryReturned(<<>>)
       ELSE IF start < end
       THEN SendPage(start) /\ UNCHANGED <<all_rows, bn_pages, bn_end, bn_status>>
       ELSE /\ UNCHANGED <<cur_start, all_rows, bn_windows, bn_pages,
                           bn_status>>
            /\ BinanceFrame(<<>>)
    /\ UNCHANGED <<inputVars, http_status, cancel_seen, reqs_at_cancel>>
    /\ UNCHANGED <<clampVars, btVars, ruleVars, exVars, indVars,
                 pathVars, alertVars, chartVars>>

\* The answer to a page request: lines 191-206, and 208-220 when the loop
\* ends here.
BinanceResponse ==
    /\ f_pc = "bn_get"
    /\ \E status \in BnStatuses :
         /\ bn_status' = status
         /\ IF status # 200
            THEN /\ UNCHANGED <<cur_start, all_rows, bn_windows, bn_pages>>
                 /\ IF AbortsPrimary(status)
                    THEN bn_end' = "aborted" /\ PrimaryReturned(<<>>)
                    ELSE /\ bn_end' = "raised"
                         /\ PrimaryRaised("HTTPStatusError", status)
            ELSE LET w == bn_windows[Len(bn_windows)]
                     rows == BinancePage(w[1], w[2])
                     next_start == NextStart(rows)
                 IN  /\ bn_pages' = Append(bn_pages, rows)
                     /\ IF rows = <<>>
                        THEN /\ UNCHANGED <<cur_start, all_rows, bn_windows>>
                             /\ BinanceFrame(all_rows)
                        ELSE /\ all_rows' = all_rows \o rows
                             /\ IF ~Advances(next_start, cur_start)
                                THEN /\ UNCHANGED <<cur_start, bn_windows>>
                                     /\ BinanceFrame(all_rows \o rows)
                                ELSE /\ cur_start' = next_start
                                     /\ f_pc' = "bn_sleep"
                                     /\ UNCHANGED <<bn_windows, bn_end,
                                                    cgGroup, outGroup>>
    /\ UNCHANGED <<inputVars, http_status, cancel_seen, reqs_at_cancel>>
    /\ UNCHANGED <<clampVars, btVars, ruleVars, exVars, indVars,
                 pathVars, alertVars, chartVars>>

\* The inter-page sleep is over: the loop test of line 188.
BinanceWake ==
    /\ f_pc = "bn_sleep"
    /\ IF cur_start < end
       THEN SendPage(cur_start) /\ UNCHANGED <<all_rows, bn_pages, bn_end, bn_status>>
       ELSE /\ UNCHANGED <<cur_start, all_rows, bn_windows, bn_pages,
                           bn_status>>
            /\ BinanceFrame(all_rows)
    /\ UNCHANGED <<inputVars, http_status, cancel_seen, reqs_at_cancel>>
    /\ UNCHANGED <<clampVars, btVars, ruleVars, exVars, indVars,
                 pathVars, alertVars, chartVars>>

\* The answer to a CoinGecko request: _cg_get_json lines 241-285, then
\* fetch_ohlc_coingecko 302-323 and fetch_ohlc 360-369 on a 200.
CoinGeckoResponse ==
    /\ f_pc = "cg_get"
    /\ \E status \in CgStatuses, points \in SUBSET CgPointTimes :
         /\ status # 200 => points = {}
         /\ cg_statuses' = Append(cg_statuses, status)
         /\ IF status = 401
            THEN /\ Raise("RuntimeError", 401)
                 /\ UNCHANGED <<attempt, cg_requests, cg_sleeps, cg_bars>>
            ELSE IF Retryable(status)
            THEN IF attempt = CG_MAX_RETRIES
                 THEN /\ Raise("RuntimeError", status)
                      /\ UNCHANGED <<attempt, cg_requests, cg_sleeps,
                                     cg_bars>>
                 ELSE /\ cg_sleeps' = Append(cg_sleeps, BackoffDelay(attempt))
                      /\ f_pc' = "cg_sleep"
                      /\ UNCHANGED <<attempt, cg_requests, cg_bars, outGroup>>
            ELSE IF status >= 400
            THEN /\ Raise("RuntimeError", status)
                 /\ UNCHANGED <<attempt, cg_requests, cg_sleeps, cg_bars>>
            ELSE LET ohlc == Resample(points, cg_params[1].interval)
                 IN  /\ cg_bars' = Some(ohlc)
                     /\ Return(IF ohlc = <<>>
                               THEN <<>>
                               ELSE FilterCoinGecko(ohlc, start, end),
                               "coingecko")
                     /\ UNCHANGED <<attempt, cg_requests, cg_sleeps>>
    /\ UNCHANGED <<inputVars, bnGroup, cg_params, http_status, cancel_seen,
                   reqs_at_cancel>>
    /\ UNCHANGED <<clampVars, btVars, ruleVars, exVars, indVars,
                 pathVars, alertVars, chartVars>>

\* The backoff sleep is over: the next attempt, lines 240-241.
CoinGeckoWake ==
    /\ f_pc = "cg_sleep"
    /\ attempt' = attempt + 1
    /\ cg_requests' = cg_requests + 1
    /\ f_pc' = "cg_get"
    /\ UNCHANGED <<inputVars, bnGroup, cg_sleeps, cg_params, cg_statuses,
                   cg_bars, outGroup, http_status, cancel_seen,
                   reqs_at_cancel>>
    /\ UNCHANGED <<clampVars, btVars, ruleVars, exVars, indVars,
                 pathVars, alertVars, chartVars>>

AwaitPoints == {"bn_get", "bn_sleep", "cg_get", "cg_sleep"}

\* The task running the fetch is cancelled (task.cancel(), or the timeout
\* of asyncio.wait_for): CancelledError is raised at the await the
\* coroutine is suspended at and unwinds through lines 192 and 346.
Cancel ==
    /\ f_pc \in AwaitPoints
    /\ ~cancel_seen
    /\ cancel_seen' = TRUE
    /\ reqs_at_cancel' = Len(bn_windows) + cg_requests
    /\ IF f_pc \in {"bn_get", "bn_sleep"}
       THEN /\ bn_end' = "cancelled"
            /\ UNCHANGED <<cur_start, all_rows, bn_windows, bn_pages,
                           bn_status>>
            /\ PrimaryRaised("CancelledError", 0)
       ELSE /\ UNCHANGED <<bnGroup, cgGroup>>
            /\ Raise("CancelledError", 0)
    /\ UNCHANGED <<inputVars, http_status>>
    /\ UNCHANGED <<clampVars, btVars, ruleVars, exVars, indVars,
                 pathVars, alertVars, chartVars>>

\* get_ohlc (api.py 120-133): an empty frame is answered 404, an exception
\* leaves the handler and is answered 500.
ApiRespond ==
    /\ f_pc = "done"
    /\ entry = "fetch_ohlc"
    /\ outcome \in {"ok", "error"}
    /\ http_status' = IF outcome = "error" THEN 500
                      ELSE IF result = <<>> THEN 404 ELSE 200
    /\ f_pc' = "responded"
    /\ UNCHANGED <<inputVars, bnGroup, cgGroup, outGroup, cancel_seen,
                   reqs_at_cancel>>
    /\ UNCHANGED <<clampVars, btVars, ruleVars, exVars, indVars,
                 pathVars, alertVars, chartVars>>

-----------------------------------------------------------------------------
(* Properties of the fetcher, checked under SpecFetch.                     *)

Finished == f_pc \in {"done", "responded"}

\* The fallback was answered 200 and, like the primary attempt, yielded no
\* bar inside the requested range.
NoBarInRange ==
    /\ entry = "fetch_ohlc"
    /\ Finished
    /\ cg_bars # None
    /\ FilterRange(cg_bars[1], start, end) = <<>>
    /\ FilterRange(all_rows, start, end) = <<>>

\* C1 as stated: when neither source yields a bar inside [start, end] after
\* the fallback has been tried, fetch_ohlc ends with an error of its own
\* (NoDataError), not with an empty successful series.
C1_NoDataIsAnError == NoBarInRange => outcome = "error"

\* C1 as amended: when neither source yields a bar inside [start, end]
\* after the fallback has been tried, fetch_ohlc returns an empty series as
\* a successful result and raises nothing; the distinct not-found condition
\* is produced by its HTTP caller get_ohlc, which answers 404 for an empty
\* series.
C1_NoDataIsEmptyFrame ==
    NoBarInRange =>
        /\ outcome = "ok"
        /\ result = <<>>
        /\ err = NoError
        /\ f_pc = "responded" => http_status = 404

\* The fallback returned bars, none of them in range, and the caller
\* answered 404.
C1_Witness ==
    /\ NoBarInRange
    /\ cg_bars[1] # <<>>
    /\ f_pc = "responded"
    /\ http_status = 404

\* C2: with CG_MAX_RETRIES = 3, three consecutive 429 answers to one
\* request are followed by a further attempt, whose success is returned as
\* the payload, and every backoff sleep is the previous one times a
\* constant factor.
C2_ThreeRateLimitsThenSuccess ==
    /\ (/\ ~cancel_seen
        /\ Len(cg_statuses) >= 3
        /\ \A k \in 1..3 : cg_statuses[k] = 429)
       => IF Len(cg_statuses) = 3
          THEN f_pc \in {"cg_sleep", "cg_get"}
          ELSE cg_statuses[4] = 200 => outcome = "ok" /\ cg_bars # None
    /\ \A k \in 1..(Len(cg_sleeps) - 1) :
           cg_sleeps[k + 1] = RMul(RInt(2), cg_sleeps[k])

\* C3: whenever the primary source yields at least one bar for the request,
\* fetch_ohlc returns exactly those bars filtered to [start, end] and sends
\* no request to the secondary source.
C3_PrimaryBarsAreReturned ==
    (entry = "fetch_ohlc" /\ all_rows # <<>> /\ ~cancel_seen) =>
        /\ cg_requests = 0
        /\ Finished =>
               /\ outcome = "ok"
               /\ source = "binance"
               /\ result = FilterRange(all_rows, start, end)

\* The primary attempt ended as unavailable for the request.
PrimaryUnavailable ==
    /\ entry = "fetch_ohlc"
    /\ \/ (f_pc # "call" /\ start < end /\ ~symbol_ok)
       \/ (f_pc # "call" /\ start < end /\ ~interval_ok)
       \/ bn_status \in {400, 404, 429}

\* C4: when the primary source is unavailable for the request (no pair for
\* the symbol, no normalised interval, or a page answered 400, 404 or 429),
\* fetch_ohlc raises nothing for that reason and queries the secondary
\* source; what the caller gets is the secondary source's outcome: its
\* bars filtered to the range, or the error of its last answer.
C4_UnavailablePrimaryFallsBack ==
    (PrimaryUnavailable /\ ~cancel_seen) =>
        /\ cg_requests >= 1
        /\ err.type # "HTTPStatusError"
        /\ (Finished /\ outcome = "ok") =>
               /\ source = "coingecko"
               /\ cg_bars # None
               /\ result = FilterRange(cg_bars[1], start, end)
        /\ (Finished /\ outcome = "error") =>
               /\ cg_bars = None
               /\ err = [type |-> "RuntimeError",
                         status |-> cg_statuses[Len(cg_statuses)]]
        /\ Finished => outcome \in {"ok", "error"}

\* A later page was answered 429 after bars had been fetched, and the
\* caller got the secondary source's bars.
C4_Witness ==
    /\ entry = "fetch_ohlc"
    /\ Finished
    /\ bn_status = 429
    /\ all_rows # <<>>
    /\ outcome = "ok"
    /\ source = "coingecko"
    /\ result # <<>>

\* C5: every bar of a returned series, whichever source produced it, has
\* requested start <= T <= requested end (not the clamped range).
C5_ReturnedBarsInRange ==
    (Finished /\ outcome = "ok") =>
        \A k \in 1..Len(result) : start <= result[k] /\ result[k] <= end

\* The secondary source answered a clamped request, and a returned bar lies
\* inside the requested range but before the clamped one.
C5_Witness ==
    /\ Finished
    /\ outcome = "ok"
    /\ source = "coingecko"
    /\ cg_params[1].range # <<start, end>>
    /\ \E k \in 1..Len(result) : result[k] < cg_params[1].range[1]

\* C7: a fetch cancelled while it waits for a page, between pages, for the
\* fallback or between retries ends with the cancellation error: it
\* returns no series, truncated or other, and sends no request after the
\* cancellation.
C7_CancellationEndsTheFetch ==
    cancel_seen =>
        /\ f_pc = "done"
        /\ outcome = "cancelled"
        /\ err.type = "CancelledError"
        /\ result = <<>>
        /\ Len(bn_windows) + cg_requests = reqs_at_cancel

\* fetch_ohlc was cancelled in the sleep between two pages, with bars of
\* the first page already fetched.
C7_Witness ==
    /\ cancel_seen
    /\ entry = "fetch_ohlc"
    /\ bn_end = "cancelled"
    /\ all_rows # <<>>
    /\ outcome = "cancelled"

\* The answers received so far to the CoinGecko request.
LastCgStatus == cg_statuses[Len(cg_statuses)]

\* CG_BACKOFF_BASE_SECS * 2^k, CG_BACKOFF_BASE_SECS = 1.5.
ExpectedSleep(k) == RMul(Rat(3, 2), RInt(2 ^ k))

\* C27: when every answer of the secondary source is 429 or 5xx,
\* _cg_get_json sends exactly CG_MAX_RETRIES requests, sleeps
\* CG_BACKOFF_BASE_SECS * 2^k before the (k+2)-th request, does not sleep
\* after the last one and then raises; under no sequence of answers does it
\* send more than CG_MAX_RETRIES requests.
C27_RetryBudget ==
    /\ cg_requests <= CG_MAX_RETRIES
    /\ Len(cg_sleeps) <= cg_requests
    /\ f_pc = "cg_get" => Len(cg_sleeps) = cg_requests - 1
    /\ \A k \in 0..(Len(cg_sleeps) - 1) : cg_sleeps[k + 1] = ExpectedSleep(k)
    /\ (/\ Finished
        /\ ~cancel_seen
        /\ cg_statuses # <<>>
        /\ \A k \in 1..Len(cg_statuses) :
               cg_statuses[k] = 429 \/ cg_statuses[k] \in 500..599)
       => /\ cg_requests = CG_MAX_RETRIES
          /\ Len(cg_statuses) = CG_MAX_RETRIES
          /\ Len(cg_sleeps) = CG_MAX_RETRIES - 1
          /\ outcome = "error"
          /\ err = [type |-> "RuntimeError", status |-> LastCgStatus]
          /\ result = <<>>

\* Rate limits and a server error used up the budget.
C27_Witness ==
    /\ f_pc = "done"
    /\ cg_statuses = <<429, 500, 429>>
    /\ cg_sleeps = <<Rat(3, 2), Rat(3, 1)>>
    /\ outcome = "error"

\* C28: a non-retryable answer of the secondary source (401, or another 4xx
\* that is not 429) ends _cg_get_json with an error on the attempt that
\* received it, also after retried attempts, with no further request and no
\* backoff sleep; the error of a 401 differs from the error of any other
\* status.
C28_NonRetryableEndsAtOnce ==
    (cg_statuses # <<>> /\ LastCgStatus \in 400..499 /\ LastCgStatus # 429) =>
        /\ Finished
        /\ outcome = "error"
        /\ err.type = "RuntimeError"
        /\ err.status = LastCgStatus
        /\ err.status = 401 <=> LastCgStatus = 401
        /\ cg_bars = None
        /\ cg_requests = Len(cg_statuses)
        /\ Len(cg_sleeps) = Len(cg_statuses) - 1

\* A 401 arrived on the second attempt, after one retried rate limit.
C28_Witness ==
    /\ f_pc = "done"
    /\ cg_statuses = <<429, 401>>
    /\ cg_requests = 2
    /\ Len(cg_sleeps) = 1
    /\ err.status = 401

\* C29: a primary page request that fails with a status other than 400, 404
\* or 429 propagates: fetch_ohlc fails with that error and sends no request
\* to the secondary source.
C29_HardPrimaryFailurePropagates ==
    (/\ entry = "fetch_ohlc"
     /\ bn_status \notin {0, 200, 400, 404, 429}
     /\ ~cancel_seen)
    => /\ cg_requests = 0
       /\ Finished
       /\ outcome = "error"
       /\ err = [type |-> "HTTPStatusError", status |-> bn_status]

\* C30: the window start of each page request is strictly greater than
\* that of the one before; every window is at most Limit * interval wide,
\* starts before end and does not extend past end; no page is requested
\* after an empty page, nor after a page whose last bar does not move the
\* window start on.
C30_PaginationAdvances ==
    /\ \A k \in 1..Len(bn_windows) :
         /\ bn_windows[k][1] < end
         /\ bn_windows[k][1] <= bn_windows[k][2]
         /\ bn_windows[k][2] <= end
         /\ bn_windows[k][2] - bn_windows[k][1] < Limit * interval_ms
    /\ \A k \in 1..(Len(bn_windows) - 1) :
         /\ bn_windows[k][1] < bn_windows[k + 1][1]
         /\ bn_pages[k] # <<>>
         /\ bn_windows[k + 1][1] =
                bn_pages[k][Len(bn_pages[k])] + interval_ms
    /\ Len(bn_pages) <= Len(bn_windows)
    /\ Len(bn_windows) <= Max(0, end - start)
    /\ (bn_pages # <<>> /\ bn_pages[Len(bn_pages)] = <<>>) =>
           /\ f_pc \notin {"bn_get", "bn_sleep"}
           /\ Len(bn_pages) = Len(bn_windows)

\* The server answered the second page with the bars of the first; the
\* window start did not advance and the loop ended after two requests.
C30_Witness ==
    /\ bn_ignores_window
    /\ Len(bn_windows) = 2
    /\ Len(bn_pages) = 2
    /\ bn_pages[1] = bn_pages[2]
    /\ bn_pages[1] # <<>>
    /\ f_pc \notin {"bn_get", "bn_sleep"}
    /\ ~cancel_seen

StrictlyIncreasing(q) == \A k \in 1..(Len(q) - 1) : q[k] < q[k + 1]

\* C32: when every page the source returns is sorted and holds only bars
\* of the requested window, the rows stored across pages, and the series
\* the primary fetch returns, have strictly increasing (so unique)
\* timestamps: no bar is fetched or stored twice.
C32_PrimaryBarsAreUnique ==
    ~bn_ignores_window =>
        /\ StrictlyIncreasing(all_rows)
        /\ \A j, k \in 1..Len(bn_pages) :
               j # k => Range(bn_pages[j]) \cap Range(bn_pages[k]) = {}
        /\ source = "binance" => StrictlyIncreasing(result)

\* Two pages, each with a bar, were stored and returned.
C32_Witness ==
    /\ ~bn_ignores_window
    /\ Len(bn_pages) >= 2
    /\ bn_pages[1] # <<>> /\ bn_pages[2] # <<>>
    /\ source = "binance"
    /\ Len(result) >= 2

\* C38: when a page request is answered 400, 404 or 429 after earlier pages
\* returned bars, the primary attempt yields an empty series, none of the
\* bars already fetched is returned, and fetch_ohlc queries the secondary
\* source.
C38_AbortDiscardsFetchedBars ==
    (f_pc \notin {"bn_get", "bn_sleep"} /\ bn_status \in {400, 404, 429}
        /\ all_rows # <<>>) =>
        /\ bn_end = "aborted"
        /\ source = "binance" => result = <<>>
        /\ entry = "fetch_ohlc_binance" => outcome = "ok" /\ result = <<>>
        /\ entry = "fetch_ohlc" => cg_requests >= 1 /\ cg_params # None

\* A second page was answered 429 after the first brought a bar, and the
\* caller got bars of the secondary source.
C38_Witness ==
    /\ entry = "fetch_ohlc"
    /\ bn_status = 429
    /\ all_rows # <<>>
    /\ Len(bn_windows) = 2
    /\ source = "coingecko"
    /\ result # <<>>

\* C39: a primary fetch that completes without error returns every bar the
\* source holds with open time in [start, end], also across a stretch
\* without bars longer than a page window.
C39_PrimaryFetchIsComplete ==
    (entry = "fetch_ohlc_binance" /\ outcome = "ok"
        /\ bn_end \in {"empty", "returned"} /\ ~bn_ignores_window) =>
        \A b \in bn_bars : (start <= b /\ b <= end) => b \in Range(result)

-----------------------------------------------------------------------------
(* rules.py.                                                               *)
(* A signal series is a function from the timestamps of its index to its   *)
(* values; NaN, the value pd.concat gives a timestamp missing from an      *)
(* input, is None. A series is compared by the value it holds at each      *)
(* timestamp, the order of its rows left out.                              *)

\* The most inputs of one combine_signals call.
MaxSignals == 2

CombineTimes == {1, 2}

\* Every signal series over a part of CombineTimes.
SignalSeries ==
    UNION {[D -> SignalValues] : D \in SUBSET CombineTimes}

SignalLists == UNION {[1..n -> SignalSeries] : n \in 0..MaxSignals}

Logics == {"and", "or", "AND", "Or", "xor"}

\* Mutant: logic is compared as it was passed.
lower_dropped(s) == s

\* str.lower() on the values of Logics.
lower(s) ==
    CASE s = "AND" -> "and"
      [] s = "Or" -> "or"
      [] OTHER -> s

\* pd.concat(signals, axis=1): the outer join of the indexes (line 89).
ConcatIndex(sigs) == UNION {DOMAIN sigs[i] : i \in 1..Len(sigs)}

\* The row of the concatenated frame at timestamp t.
ConcatRow(sigs, t) ==
    [i \in 1..Len(sigs) |->
        IF t \in DOMAIN sigs[i] THEN Some(sigs[i][t]) ELSE None]

\* Mutant: a missing cell passes the test.
Positive_or_missing(cell) == cell = None \/ cell[1] > 0

\* df > 0 on one cell: a comparison with NaN is False.
Positive(cell) == cell # None /\ cell[1] > 0

\* Mutant: a neutral cell counts as bearish.
Negative_or_zero(cell) == cell # None /\ cell[1] <= 0

\* df < 0 on one cell.
Negative(cell) == cell # None /\ cell[1] < 0

\* Mutant: only the bullish case is written.
AndValue_bullish_only(row) ==
    IF \A i \in 1..Len(row) : Positive(row[i]) THEN 1 ELSE 0

\* Lines 92-96 on one row; line 96 is applied after line 95.
AndValue(row) ==
    LET pos == \A i \in 1..Len(row) : Positive(row[i])
        neg == \A i \in 1..Len(row) : Negative(row[i])
    IN  IF neg THEN 0 - 1 ELSE IF pos THEN 1 ELSE 0

\* Mutant: the docstring's rule, +1 dominating when both signs are present.
OrValue_bullish_dominates(row) ==
    LET pos == \E i \in 1..Len(row) : Positive(row[i])
        neg == \E i \in 1..Len(row) : Negative(row[i])
    IN  IF pos THEN 1 ELSE IF neg THEN 0 - 1 ELSE 0

\* Lines 99-104 on one row.
OrValue(row) ==
    LET pos == \E i \in 1..Len(row) : Positive(row[i])
        neg == \E i \in 1..Len(row) : Negative(row[i])
    IN  IF neg /\ ~pos THEN 0 - 1 ELSE IF pos /\ ~neg THEN 1 ELSE 0

Raised(type) == [err |-> type, value |-> None]

Returned(v) == [err |-> "", value |-> Some(v)]

\* combine_signals, lines 87-107.
combine_signals(sigs, lg) ==
    IF sigs = <<>> THEN Raised("ValueError")
    ELSE IF lower(lg) = "and"
    THEN Returned([t \in ConcatIndex(sigs) |-> AndValue(ConcatRow(sigs, t))])
    ELSE IF lower(lg) = "or"
    THEN Returned([t \in ConcatIndex(sigs) |-> OrValue(ConcatRow(sigs, t))])
    ELSE Raised("ValueError")

RulesIdle ==
    /\ r_pc = "off"
    /\ r_fn = ""
    /\ signals = <<>>
    /\ logic = ""
    /\ series1 = <<>>
    /\ series2 = <<>>
    /\ series3 = <<>>
    /\ rsi = <<>>
    /\ low = 0
    /\ high = 0
    /\ r_result = None
    /\ r_err = ""

CombineInit ==
    /\ r_pc = "call"
    /\ r_fn = "combine_signals"
    /\ signals \in SignalLists
    /\ logic \in Logics
    /\ series1 = <<>>
    /\ series2 = <<>>
    /\ series3 = <<>>
    /\ rsi = <<>>
    /\ low = 0
    /\ high = 0
    /\ r_result = None
    /\ r_err = ""

\* The longest indicator series handed to a signal rule.
MaxSeriesLen == 3

\* Indicator values: two levels, and NaN.
CrossValues == {None, Some(1), Some(2)}

\* RSI readings around the thresholds, and NaN.
RsiValues == {None, Some(20), Some(30), Some(50), Some(70), Some(80)}

Thresholds == {30, 70}

SeriesOver(V) == UNION {[1..n -> V] : n \in 0..MaxSeriesLen}

\* Series.shift(1): the first row becomes NaN.
shift(q) == [k \in 1..Len(q) |-> IF k = 1 THEN None ELSE q[k - 1]]

\* Comparisons of two cells; one with NaN is False.
Lt(a, b) == a # None /\ b # None /\ a[1] < b[1]

Le(a, b) == a # None /\ b # None /\ a[1] <= b[1]

\* Mutant: the current values must have crossed strictly.
_cross_up_strict(s1, s2) ==
    [k \in 1..Len(s1) |->
        Lt(shift(s1)[k], shift(s2)[k]) /\ Lt(s2[k], s1[k])]

\* Line 16.
_cross_up(s1, s2) ==
    [k \in 1..Len(s1) |->
        Lt(shift(s1)[k], shift(s2)[k]) /\ Le(s2[k], s1[k])]

\* Mutant: the test of the previous bar is dropped.
_cross_down_current_only(s1, s2) == [k \in 1..Len(s1) |-> Le(s1[k], s2[k])]

\* Line 22.
_cross_down(s1, s2) ==
    [k \in 1..Len(s1) |->
        Lt(shift(s2)[k], shift(s1)[k]) /\ Le(s1[k], s2[k])]

\* s = 0; s.loc[up] = 1; s.loc[down] = -1, the later assignment winning.
Mark(up, down) ==
    [k \in 1..Len(up) |-> IF down[k] THEN 0 - 1 ELSE IF up[k] THEN 1 ELSE 0]

\* Lines 26-36.
macd_cross_signal(macd, sig) ==
    Mark(_cross_up(macd, sig), _cross_down(macd, sig))

\* Lines 66-76.
sma_crossover_signal(fast, slow) ==
    Mark(_cross_up(fast, slow), _cross_down(fast, slow))

\* Mutant: the signal follows the level, not the transition.
rsi_signal_level(r, lo, hi) ==
    Mark([k \in 1..Len(r) |-> Le(r[k], Some(lo))],
         [k \in 1..Len(r) |-> Le(Some(hi), r[k])])

\* Lines 39-50.
rsi_signal(r, lo, hi) ==
    Mark([k \in 1..Len(r) |->
             Lt(Some(lo), shift(r)[k]) /\ Le(r[k], Some(lo))],
         [k \in 1..Len(r) |->
             Lt(shift(r)[k], Some(hi)) /\ Le(Some(hi), r[k])])

\* The two series of a crossover rule share their index.
CrossInit ==
    /\ r_pc = "call"
    /\ r_fn \in {"macd_cross_signal", "sma_crossover_signal"}
    /\ series1 \in SeriesOver(CrossValues)
    /\ series2 \in [1..Len(series1) -> CrossValues]
    /\ series3 = <<>>
    /\ signals = <<>>
    /\ logic = ""
    /\ rsi = <<>>
    /\ low = 0
    /\ high = 0
    /\ r_result = None
    /\ r_err = ""

RsiInit ==
    /\ r_pc = "call"
    /\ r_fn = "rsi_signal"
    /\ rsi \in SeriesOver(RsiValues)
    /\ low \in Thresholds
    /\ high \in Thresholds
    /\ signals = <<>>
    /\ logic = ""
    /\ series1 = <<>>
    /\ series2 = <<>>
    /\ series3 = <<>>
    /\ r_result = None
    /\ r_err = ""

\* Closes around a band level, and NaN.
BandCloses == {None, Some(1), Some(2), Some(3)}

\* <<lower, upper>> at one bar: both undefined during warm-up, then either
\* apart, or together on the close level (a window of equal closes has
\* standard deviation 0).
BandPairs ==
    {<<None, None>>, <<Some(1), Some(3)>>, <<Some(2), Some(2)>>}

\* rules.bollinger_signal, lines 53-63: the one core/__init__.py exports.
bollinger_signal(cl, lower_band, upper_band) ==
    Mark(_cross_down(cl, lower_band), _cross_up(cl, upper_band))

\* indicators.bollinger_signal, lines 78-88.
indicators_bollinger_signal(cl, bb_lower, bb_upper) ==
    Mark([k \in 1..Len(cl) |-> Lt(cl[k], bb_lower[k])],
         [k \in 1..Len(cl) |-> Lt(bb_upper[k], cl[k])])

BollingerFns == {"rules.bollinger_signal", "indicators.bollinger_signal"}

BollingerInit ==
    /\ r_pc = "call"
    /\ r_fn \in BollingerFns
    /\ series1 \in SeriesOver(BandCloses)
    /\ \E bands \in [1..Len(series1) -> BandPairs] :
        /\ series2 = [k \in 1..Len(series1) |-> bands[k][1]]
        /\ series3 = [k \in 1..Len(series1) |-> bands[k][2]]
    /\ signals = <<>>
    /\ logic = ""
    /\ rsi = <<>>
    /\ low = 0
    /\ high = 0
    /\ r_result = None
    /\ r_err = ""

RulesInit == CombineInit \/ CrossInit \/ RsiInit \/ BollingerInit

CombineCall ==
    /\ r_pc = "call"
    /\ r_fn = "combine_signals"
    /\ LET out == combine_signals(signals, logic)
       IN  /\ r_result' = out.value
           /\ r_err' = out.err
    /\ r_pc' = "done"
    /\ UNCHANGED <<r_fn, signals, logic, series1, series2, series3, rsi, low,
                   high>>
    /\ UNCHANGED <<clampVars, fetchVars, btVars, exVars, indVars,
                 pathVars, alertVars, chartVars>>

CrossCall ==
    /\ r_pc = "call"
    /\ r_fn \in {"macd_cross_signal", "sma_crossover_signal"}
    /\ r_result' = Some(IF r_fn = "macd_cross_signal"
                        THEN macd_cross_signal(series1, series2)
                        ELSE sma_crossover_signal(series1, series2))
    /\ r_pc' = "done"
    /\ UNCHANGED <<r_fn, signals, logic, series1, series2, series3, rsi, low,
                   high, r_err>>
    /\ UNCHANGED <<clampVars, fetchVars, btVars, exVars, indVars,
                 pathVars, alertVars, chartVars>>

RsiCall ==
    /\ r_pc = "call"
    /\ r_fn = "rsi_signal"
    /\ r_result' = Some(rsi_signal(rsi, low, high))
    /\ r_pc' = "done"
    /\ UNCHANGED <<r_fn, signals, logic, series1, series2, series3, rsi, low,
                   high, r_err>>
    /\ UNCHANGED <<clampVars, fetchVars, btVars, exVars, indVars,
                 pathVars, alertVars, chartVars>>

\* series1 is the close, series2 the lower band, series3 the upper band.
BollingerCall ==
    /\ r_pc = "call"
    /\ r_fn \in BollingerFns
    /\ r_result' =
           Some(IF r_fn = "rules.bollinger_signal"
                THEN bollinger_signal(series1, series2, series3)
                ELSE indicators_bollinger_signal(series1, series2, series3))
    /\ r_pc' = "done"
    /\ UNCHANGED <<r_fn, signals, logic, series1, series2, series3, rsi, low,
                   high, r_err>>
    /\ UNCHANGED <<clampVars, fetchVars, btVars, exVars, indVars,
                 pathVars, alertVars, chartVars>>

-----------------------------------------------------------------------------
(* Properties of combine_signals, checked under SpecRules.                 *)

CombineDone == r_pc = "done" /\ r_fn = "combine_signals"

\* The inputs' values at timestamp t; a missing input has no value there.
Present(t) == {i \in 1..Len(signals) : t \in DOMAIN signals[i]}

AllPresent(t) == Present(t) = 1..Len(signals)

\* C14: with logic 'and' the result is, at each timestamp, +1 if and only
\* if every input is +1 there, -1 if and only if every input is -1 there,
\* and 0 otherwise, which includes mixed signs and a missing input.
C14_AndIsUnanimity ==
    (CombineDone /\ logic = "and" /\ signals # <<>>) =>
        /\ r_err = ""
        /\ DOMAIN r_result[1] = ConcatIndex(signals)
        /\ \A t \in DOMAIN r_result[1] :
             LET all_up == AllPresent(t) /\
                           \A i \in 1..Len(signals) : signals[i][t] = 1
                 all_down == AllPresent(t) /\
                             \A i \in 1..Len(signals) : signals[i][t] = 0 - 1
             IN  /\ r_result[1][t] = 1 <=> all_up
                 /\ r_result[1][t] = 0 - 1 <=> all_down
                 /\ r_result[1][t] \in {0 - 1, 0, 1}

\* Two inputs were combined with 'and': they agree at one timestamp, and at
\* another one of them is missing.
C14_Witness ==
    /\ CombineDone
    /\ logic = "and"
    /\ Len(signals) = 2
    /\ \E t \in DOMAIN r_result[1] : r_result[1][t] = 0 - 1
    /\ \E t \in DOMAIN r_result[1] : ~AllPresent(t) /\ r_result[1][t] = 0

C16_SingleInputIsIdentity ==
    (CombineDone /\ Len(signals) = 1 /\ logic \in {"and", "or"}) =>
        /\ r_err = ""
        /\ r_result[1] = signals[1]

\* A single input holding both signs was combined.
C16_Witness ==
    /\ CombineDone
    /\ Len(signals) = 1
    /\ logic \in {"and", "or"}
    /\ {signals[1][t] : t \in DOMAIN signals[1]} = {0 - 1, 1}
    /\ r_result # None

\* The lists that hold the elements of q in another order.
Reorderings(q) ==
    {[i \in 1..Len(q) |-> q[p[i]]] :
        p \in {f \in [1..Len(q) -> 1..Len(q)] :
                  \A i, j \in 1..Len(q) : f[i] = f[j] => i = j}}

\* C17: the 'and' combination is the same for every permutation of the
\* input list, and is 0 at every timestamp where some input is 0.
C17_AndCommutes ==
    (CombineDone /\ logic = "and" /\ signals # <<>>) =>
        /\ \A q \in Reorderings(signals) :
             combine_signals(q, logic) = Returned(r_result[1])
        /\ \A t \in DOMAIN r_result[1] :
             (\E i \in Present(t) : signals[i][t] = 0) => r_result[1][t] = 0

\* Two different inputs were combined with 'and'; one is 0 where the other
\* is not.
C17_Witness ==
    /\ CombineDone
    /\ logic = "and"
    /\ Len(signals) = 2
    /\ signals[1] # signals[2]
    /\ \E t \in DOMAIN r_result[1] :
         /\ AllPresent(t)
         /\ signals[1][t] = 0
         /\ signals[2][t] = 0 - 1

\* C18 as stated: the call fails, returning no series, when the list is
\* empty or logic is neither 'and' nor 'or', and never fails otherwise.
C18_FailsOnBadRule ==
    CombineDone =>
        ((signals = <<>> \/ logic \notin {"and", "or"})
            <=> (r_err # "" /\ r_result = None))

\* C18 as amended: the call raises ValueError, returning no series, when
\* the list is empty or logic, lower-cased, is neither 'and' nor 'or'; it
\* never fails for a non-empty list whose logic is 'and' or 'or' in any
\* letter case.
C18_FailsOnBadRuleAnyCase ==
    CombineDone =>
        /\ (signals = <<>> \/ logic \notin {"and", "or", "AND", "Or"})
               <=> r_err = "ValueError"
        /\ r_err # "" <=> r_result = None

\* A non-empty list was combined with an upper-case logic, and a series was
\* returned.
C18_Witness ==
    /\ CombineDone
    /\ signals # <<>>
    /\ logic = "AND"
    /\ r_err = ""
    /\ r_result # None

-----------------------------------------------------------------------------
(* Properties of the signal rules, checked under SpecRules.                *)

CrossDone ==
    r_pc = "done" /\ r_fn \in {"macd_cross_signal", "sma_crossover_signal"}

\* All four values a crossover at T reads are defined.
CrossDefined(T) ==
    /\ T > 1
    /\ series1[T - 1] # None
    /\ series2[T - 1] # None
    /\ series1[T] # None
    /\ series2[T] # None

\* C19: macd_cross_signal and sma_crossover_signal give +1 at T exactly
\* when A[T-1] < B[T-1] and A[T] >= B[T], -1 at T exactly when
\* A[T-1] > B[T-1] and A[T] <= B[T], and 0 otherwise; where any of the four
\* values is undefined, as at the first timestamp, the result is 0.
C19_CrossoverSignal ==
    CrossDone =>
        /\ Len(r_result[1]) = Len(series1)
        /\ \A T \in 1..Len(series1) :
             LET v == r_result[1][T]
             IN  /\ v \in {0 - 1, 0, 1}
                 /\ ~CrossDefined(T) => v = 0
                 /\ v = 1 <=>
                        /\ CrossDefined(T)
                        /\ series1[T - 1][1] < series2[T - 1][1]
                        /\ series1[T][1] >= series2[T][1]
                 /\ v = 0 - 1 <=>
                        /\ CrossDefined(T)
                        /\ series1[T - 1][1] > series2[T - 1][1]
                        /\ series1[T][1] <= series2[T][1]

\* A crossed above B by meeting it, and is undefined at the bar after.
C19_Witness ==
    /\ CrossDone
    /\ Len(series1) = 3
    /\ CrossDefined(2)
    /\ series1[2] = series2[2]
    /\ series1[3] = None
    /\ r_result[1] = <<0, 1, 0>>

RsiDone == r_pc = "done" /\ r_fn = "rsi_signal"

RsiDefined(T) == T > 1 /\ rsi[T - 1] # None /\ rsi[T] # None

\* C20: rsi_signal gives +1 at T when rsi[T-1] > low and rsi[T] <= low, -1
\* at T when rsi[T-1] < high and rsi[T] >= high, and 0 at every other T,
\* which includes every T where rsi[T-1] or rsi[T] is undefined; an RSI
\* that stays at or below low gives no further +1, one that stays at or
\* above high no further -1.
C20_RsiSignal ==
    RsiDone =>
        /\ Len(r_result[1]) = Len(rsi)
        /\ \A T \in 1..Len(rsi) :
             LET v == r_result[1][T]
                 buy == /\ RsiDefined(T)
                        /\ rsi[T - 1][1] > low
                        /\ rsi[T][1] <= low
                 sell == /\ RsiDefined(T)
                         /\ rsi[T - 1][1] < high
                         /\ rsi[T][1] >= high
             IN  /\ buy => v = 1
                 /\ sell => v = 0 - 1
                 /\ ~buy /\ ~sell => v = 0
                 /\ ~RsiDefined(T) => v = 0
                 /\ (RsiDefined(T) /\ rsi[T - 1][1] <= low /\ rsi[T][1] <= low)
                        => v # 1
                 /\ (RsiDefined(T) /\ rsi[T - 1][1] >= high
                        /\ rsi[T][1] >= high) => v # 0 - 1

\* The RSI fell to the low threshold and stayed under it: one +1, then 0.
C20_Witness ==
    /\ RsiDone
    /\ low = 30
    /\ high = 70
    /\ rsi = <<Some(50), Some(30), Some(20)>>
    /\ r_result[1] = <<0, 1, 0>>

\* C21: bollinger_signal gives +1 at every T where the close crosses below
\* the lower band (close[T-1] > lower[T-1] and close[T] <= lower[T]), -1 at
\* every T where it crosses above the upper band (close[T-1] < upper[T-1]
\* and close[T] >= upper[T]) and 0 elsewhere, in both modules that define
\* it; a close that stays below the lower band gives no further +1.
C21_BollingerIsACrossingSignal ==
    (r_pc = "done" /\ r_fn \in BollingerFns) =>
        \A T \in 1..Len(series1) :
            LET v == r_result[1][T]
                prev == T > 1 /\ series1[T - 1] # None
                below == /\ prev
                         /\ series2[T - 1] # None
                         /\ series2[T] # None
                         /\ series1[T] # None
                         /\ series1[T - 1][1] > series2[T - 1][1]
                         /\ series1[T][1] <= series2[T][1]
                above == /\ prev
                         /\ series3[T - 1] # None
                         /\ series3[T] # None
                         /\ series1[T] # None
                         /\ series1[T - 1][1] < series3[T - 1][1]
                         /\ series1[T][1] >= series3[T][1]
            IN  /\ (below /\ ~above) => v = 1
                /\ (above /\ ~below) => v = 0 - 1
                /\ (~below /\ ~above) => v = 0

RuleFns ==
    {"macd_cross_signal", "sma_crossover_signal", "rules.bollinger_signal",
     "rsi_signal"}

\* The input whose index the result of the rule called carries.
RuleInput == IF r_fn = "rsi_signal" THEN rsi ELSE series1

\* The bullish and the bearish condition of the rule called, at bar k.
BullishAt(k) ==
    CASE r_fn = "rsi_signal" ->
             k > 1 /\ Lt(Some(low), rsi[k - 1]) /\ Le(rsi[k], Some(low))
      [] r_fn = "rules.bollinger_signal" ->
             k > 1 /\ Lt(series2[k - 1], series1[k - 1])
                   /\ Le(series1[k], series2[k])
      [] OTHER ->
             k > 1 /\ Lt(series1[k - 1], series2[k - 1])
                   /\ Le(series2[k], series1[k])

BearishAt(k) ==
    CASE r_fn = "rsi_signal" ->
             k > 1 /\ Lt(rsi[k - 1], Some(high)) /\ Le(Some(high), rsi[k])
      [] r_fn = "rules.bollinger_signal" ->
             k > 1 /\ Lt(series1[k - 1], series3[k - 1])
                   /\ Le(series3[k], series1[k])
      [] OTHER ->
             k > 1 /\ Lt(series2[k - 1], series1[k - 1])
                   /\ Le(series1[k], series2[k])

\* The result had -1 been assigned before +1.
BearishFirst ==
    [k \in 1..Len(RuleInput) |->
        IF BullishAt(k) THEN 1 ELSE IF BearishAt(k) THEN 0 - 1 ELSE 0]

\* The bands have no width at bar k.
ZeroWidthAt(k) == Le(series3[k], series2[k])

\* C40 as claimed: in macd_cross_signal, sma_crossover_signal,
\* bollinger_signal and rsi_signal (low < high) the bullish and the bearish
\* condition never hold at the same timestamp, so the result has values in
\* {-1, 0, +1} over the input's index and is the same whichever of +1 and
\* -1 is assigned first.
C40_ConditionsExclusive ==
    (r_pc = "done" /\ r_fn \in RuleFns /\ (r_fn = "rsi_signal" => low < high))
    =>  /\ \A k \in 1..Len(RuleInput) : ~(BullishAt(k) /\ BearishAt(k))
        /\ DOMAIN r_result[1] = DOMAIN RuleInput
        /\ \A k \in 1..Len(RuleInput) : r_result[1][k] \in {0 - 1, 0, 1}
        /\ r_result[1] = BearishFirst

\* C40 as the code has it: the conditions are exclusive in
\* macd_cross_signal, sma_crossover_signal and rsi_signal (low < high), and
\* in bollinger_signal at every timestamp where lower < upper or a band is
\* undefined; the result has values in {-1, 0, +1} over the input's index
\* and does not depend on the order of assignment except in
\* bollinger_signal at a timestamp where lower >= upper, where both
\* conditions can hold and the later assignment, -1, wins.
C40_ExclusiveUnlessZeroWidth ==
    (r_pc = "done" /\ r_fn \in RuleFns /\ (r_fn = "rsi_signal" => low < high))
    =>  LET zero(k) == r_fn = "rules.bollinger_signal" /\ ZeroWidthAt(k)
        IN  /\ DOMAIN r_result[1] = DOMAIN RuleInput
            /\ \A k \in 1..Len(RuleInput) :
                /\ r_result[1][k] \in {0 - 1, 0, 1}
                /\ ~zero(k) =>
                       /\ ~(BullishAt(k) /\ BearishAt(k))
                       /\ r_result[1][k] = BearishFirst[k]
                /\ (BullishAt(k) /\ BearishAt(k)) => r_result[1][k] = 0 - 1

\* bollinger_signal marked a +1 and a -1 at bars where the bands lie apart.
C40_Witness ==
    /\ r_pc = "done"
    /\ r_fn = "rules.bollinger_signal"
    /\ \E j, k \in 1..Len(series1) :
        /\ ~ZeroWidthAt(j) /\ r_result[1][j] = 1
        /\ ~ZeroWidthAt(k) /\ r_result[1][k] = 0 - 1

-----------------------------------------------------------------------------
(* find_examples (backtester.py 120-185).                                  *)
(* ex_df is the close column of the frame and ex_signal the composite      *)
(* signal over the same index; a bar is named by its position 0..len-1, as *)
(* df.index.get_loc gives it (line 141), and bar i has close ex_df[i + 1]. *)
(* An example is recorded with the bounds of the window it charts          *)
(* (df.iloc[start_i:end_i + 1], line 144) in place of the PNG file.        *)

MaxExampleBars == 3

MaxExamples == 2

MaxLook == 2

\* Python's q[-n:] for n >= 0: the last n elements, and the whole of q for
\* n = 0, because -0 is 0 and q[0:] is q.
LastN(q, n) ==
    IF n = 0 THEN q ELSE SubSeq(q, Max(1, Len(q) - n + 1), Len(q))

\* Line 137: the index of signal[signal != 0], in index order.
RECURSIVE NonZeroIdxs(_, _)
NonZeroIdxs(sig, upto) ==
    IF upto = 0 THEN <<>>
    ELSE IF sig[upto] # 0
         THEN Append(NonZeroIdxs(sig, upto - 1), upto - 1)
         ELSE NonZeroIdxs(sig, upto - 1)

\* Line 142.
WindowStart(i, back) == Max(0, i - back)

\* Mutant: the window's end is not clipped to the last bar.
WindowEnd_unclipped(i, forward, n) == i + forward

\* Line 143.
WindowEnd(i, forward, n) == Min(n - 1, i + forward)

\* Lines 173-178.
OutcomePct(frame, i, forward) ==
    IF i + forward < Len(frame)
    THEN Some(RDiv(RSub(RInt(frame[i + forward + 1]), RInt(frame[i + 1])),
                   RInt(frame[i + 1])))
    ELSE None

\* Lines 179-184.
Example(frame, sig, i, back, forward) ==
    [timestamp |-> i,
     signal |-> sig[i + 1],
     chart |-> <<WindowStart(i, back), WindowEnd(i, forward, Len(frame))>>,
     outcome_pct |-> OutcomePct(frame, i, forward)]

ExamplesIdle ==
    /\ x_pc = "off"
    /\ ex_df = <<>>
    /\ ex_signal = <<>>
    /\ num_examples = 0
    /\ lookback = 0
    /\ lookforward = 0
    /\ selected_idxs = <<>>
    /\ examples = <<>>

ExamplesInit ==
    /\ x_pc = "call"
    /\ \E n \in 0..MaxExampleBars :
        /\ ex_df \in CloseSeries(n)
        /\ ex_signal \in [1..n -> SignalValues]
    /\ num_examples \in 0..MaxExamples
    /\ lookback \in 0..MaxLook
    /\ lookforward \in 0..MaxLook
    /\ selected_idxs = <<>>
    /\ examples = <<>>

\* Lines 135-139.
ExamplesCall ==
    /\ x_pc = "call"
    /\ selected_idxs' =
           LastN(NonZeroIdxs(ex_signal, Len(ex_signal)), num_examples)
    /\ examples' = <<>>
    /\ x_pc' = "loop"
    /\ UNCHANGED <<ex_df, ex_signal, num_examples, lookback, lookforward>>
    /\ UNCHANGED <<clampVars, fetchVars, btVars, ruleVars, indVars,
                 pathVars, alertVars, chartVars>>

\* One iteration of the loop of line 140.
ExampleStep ==
    /\ x_pc = "loop"
    /\ Len(examples) < Len(selected_idxs)
    /\ examples' =
           Append(examples,
                  Example(ex_df, ex_signal,
                          selected_idxs[Len(examples) + 1],
                          lookback, lookforward))
    /\ UNCHANGED <<x_pc, ex_df, ex_signal, num_examples, lookback,
                   lookforward, selected_idxs>>
    /\ UNCHANGED <<clampVars, fetchVars, btVars, ruleVars, indVars,
                 pathVars, alertVars, chartVars>>

\* Line 185.
ExamplesReturn ==
    /\ x_pc = "loop"
    /\ Len(examples) = Len(selected_idxs)
    /\ x_pc' = "done"
    /\ UNCHANGED <<ex_df, ex_signal, num_examples, lookback, lookforward,
                   selected_idxs, examples>>
    /\ UNCHANGED <<clampVars, fetchVars, btVars, ruleVars, indVars,
                 pathVars, alertVars, chartVars>>

-----------------------------------------------------------------------------
(* Properties of find_examples, checked under SpecExamples.                *)

\* The timestamps at which the composite signal is non-zero.
Fired == {t \in 0..(Len(ex_signal) - 1) : ex_signal[t + 1] # 0}

\* The min(n, k) most recent of the k timestamps of Fired.
MostRecent(n) == {t \in Fired : Cardinality({u \in Fired : u > t}) < n}

C26_OutcomeAndWindow ==
    \A j \in 1..Len(examples) :
        LET e == examples[j]
            i == e.timestamp
            last == Len(ex_df) - 1
            cl(b) == RInt(ex_df[b + 1])
        IN  /\ i + lookforward <= last =>
                /\ e.outcome_pct # None
                /\ RMul(e.outcome_pct[1], cl(i))
                       = RSub(cl(i + lookforward), cl(i))
            /\ i + lookforward > last => e.outcome_pct = None
            /\ e.chart[1] = Max(0, i - lookback)
            /\ e.chart[2] = Min(last, i + lookforward)
            /\ 0 <= e.chart[1] /\ e.chart[1] <= i
            /\ i <= e.chart[2] /\ e.chart[2] <= last

\* A finished call with one example whose forward bar exists and whose
\* price moved, and a later one whose forward bar does not exist and whose
\* chart is cut at the last bar.
C26_Witness ==
    /\ x_pc = "done"
    /\ lookforward > 0
    /\ \E j, k \in 1..Len(examples) :
        /\ examples[j].outcome_pct \notin {None, Some(RZero)}
        /\ examples[j].chart[1] = 0
        /\ examples[j].timestamp - lookback < 0
        /\ examples[k].outcome_pct = None
        /\ examples[k].chart[2] = Len(ex_df) - 1
        /\ examples[k].chart[2] < examples[k].timestamp + lookforward

-----------------------------------------------------------------------------
(* indicators.py: compute_sma, compute_ema, compute_rsi, compute_macd and  *)
(* compute_bollinger (lines 14-75).                                        *)
(* A close series is a sequence of whole prices without gaps; a computed   *)
(* series gives every bar an Optional exact rational, None standing for    *)
(* NaN. The Bollinger bands mid +/- n_std * std are irrational in general  *)
(* and are kept as the triple <<mid, k, variance>> that stands for         *)
(* mid + k * sqrt(variance).                                               *)

MaxWindow == 2

CloseValues == {1, 2, 3}

CloseInputs == UNION {[1..n -> CloseValues] : n \in 0..MaxSeriesLen}

Windows == 1..MaxWindow

RECURSIVE Sum(_)
Sum(q) == IF q = <<>> THEN 0 ELSE q[1] + Sum(Tail(q))

\* Mutant: the window of bar T takes in bar T + 1 when there is one.
RollingWindow_lookahead(q, T, W) ==
    SubSeq(q, Min(T + 1, Len(q)) - W + 1, Min(T + 1, Len(q)))

\* rolling(window=W): the W observations ending at bar T.
RollingWindow(q, T, W) == SubSeq(q, T - W + 1, T)

\* Mutant: the mean is taken by integer division.
Mean_floor(q) == RInt(Sum(q) \div Len(q))

\* .mean() of a window.
Mean(q) == Rat(Sum(q), Len(q))

\* .std(ddof=0) of a window, squared: the mean of the squares less the
\* square of the mean.
Variance(q) ==
    RSub(Mean([k \in 1..Len(q) |-> q[k] * q[k]]), RMul(Mean(q), Mean(q)))

\* Line 19. min_periods=W leaves the bars before the first full window NaN.
compute_sma(close, W) ==
    [T \in 1..Len(close) |->
        IF T >= W THEN Some(Mean(RollingWindow(close, T, W))) ELSE None]

\* The number of non-NaN observations up to bar T.
Observed(x, T) == Cardinality({k \in 1..T : x[k] # None})

\* ewm(alpha, adjust=False).mean() before min_periods is applied: the first
\* observation as it is, then y[T] = (1 - alpha) * y[T-1] + alpha * x[T].
\* The inputs have NaN only before their first observation.
RECURSIVE EwmRaw(_, _, _)
EwmRaw(x, alpha, T) ==
    IF x[T] = None THEN None
    ELSE IF T = 1 \/ x[T - 1] = None THEN x[T]
    ELSE Some(RAdd(RMul(RSub(ROne, alpha), EwmRaw(x, alpha, T - 1)[1]),
                   RMul(alpha, x[T][1])))

\* ewm(alpha, adjust=False, min_periods).mean().
Ewm(x, alpha, min_periods) ==
    [T \in 1..Len(x) |->
        IF Observed(x, T) >= min_periods THEN EwmRaw(x, alpha, T) ELSE None]

\* alpha of ewm(span=W).
SpanAlpha(W) == Rat(2, W + 1)

AsSeries(close) == [T \in 1..Len(close) |-> Some(RInt(close[T]))]

\* Line 28.
compute_ema(close, W) == Ewm(AsSeries(close), SpanAlpha(W), W)

\* Line 36.
diff(close) ==
    [T \in 1..Len(close) |-> IF T = 1 THEN None ELSE Some(close[T] - close[T - 1])]

\* Line 37: delta.where(delta > 0, 0.0); a NaN delta fails the test and
\* becomes 0.0.
Gain(delta) ==
    [T \in 1..Len(delta) |->
        Some(RInt(IF delta[T] # None /\ delta[T][1] > 0 THEN delta[T][1] ELSE 0))]

\* Line 38.
Loss(delta) ==
    [T \in 1..Len(delta) |->
        Some(RInt(IF delta[T] # None /\ delta[T][1] < 0 THEN 0 - delta[T][1] ELSE 0))]

\* Lines 41-42 in IEEE arithmetic: 0/0 is NaN and stays NaN; g/0 with
\* g > 0 is an infinity, for which 100 - 100 / (1 + rs) is 100.
RsiValue(avg_gain, avg_loss) ==
    IF avg_gain = None \/ avg_loss = None THEN None
    ELSE IF avg_loss[1] = RZero
         THEN IF avg_gain[1] = RZero THEN None ELSE Some(RInt(100))
    ELSE Some(RSub(RInt(100),
                   RDiv(RInt(100), RAdd(ROne, RDiv(avg_gain[1], avg_loss[1])))))

\* Lines 36-43.
compute_rsi(close, W) ==
    LET delta == diff(close)
        avg_gain == Ewm(Gain(delta), Rat(1, W), W)
        avg_loss == Ewm(Loss(delta), Rat(1, W), W)
    IN  [T \in 1..Len(close) |-> RsiValue(avg_gain[T], avg_loss[T])]

\* Series subtraction: NaN where either side is NaN.
Minus(x, y) ==
    [T \in 1..Len(x) |->
        IF x[T] = None \/ y[T] = None THEN None ELSE Some(RSub(x[T][1], y[T][1]))]

\* Lines 53-60.
compute_macd(close, fast, slow, sig) ==
    LET ema_fast == compute_ema(close, fast)
        ema_slow == compute_ema(close, slow)
        macd_line == Minus(ema_fast, ema_slow)
        signal_line == Ewm(macd_line, SpanAlpha(sig), sig)
        macd_diff == Minus(macd_line, signal_line)
    IN  [T \in 1..Len(close) |->
            [macd |-> macd_line[T], macd_signal |-> signal_line[T],
             macd_diff |-> macd_diff[T]]]

n_std == 2

\* Lines 71-75.
compute_bollinger(close, W) ==
    [T \in 1..Len(close) |->
        IF T >= W
        THEN LET w == RollingWindow(close, T, W)
             IN  [bb_lower |-> Some(<<Mean(w), 0 - n_std, Variance(w)>>),
                  bb_mid |-> Some(Mean(w)),
                  bb_upper |-> Some(<<Mean(w), n_std, Variance(w)>>)]
        ELSE [bb_lower |-> None, bb_mid |-> None, bb_upper |-> None]]

IndicatorFns ==
    {"compute_sma", "compute_ema", "compute_rsi", "compute_macd",
     "compute_bollinger"}

\* The function fn applied to a close series and its window arguments.
Indicator(fn, close, W, slow, sig) ==
    CASE fn = "compute_sma" -> compute_sma(close, W)
      [] fn = "compute_ema" -> compute_ema(close, W)
      [] fn = "compute_rsi" -> compute_rsi(close, W)
      [] fn = "compute_macd" -> compute_macd(close, W, slow, sig)
      [] fn = "compute_bollinger" -> compute_bollinger(close, W)

IndicatorsIdle ==
    /\ i_pc = "off"
    /\ i_fn = "none"
    /\ closes = <<>>
    /\ window = 0
    /\ macd_slow = 0
    /\ macd_signal = 0
    /\ i_result = <<>>

\* compute_macd takes its fast window in window.
IndicatorsInit ==
    /\ i_pc = "call"
    /\ i_fn \in IndicatorFns
    /\ closes \in CloseInputs
    /\ window \in Windows
    /\ IF i_fn = "compute_macd"
       THEN macd_slow \in Windows /\ macd_signal \in Windows
       ELSE macd_slow = 0 /\ macd_signal = 0
    /\ i_result = <<>>

IndicatorReturns(fn, value) ==
    /\ i_pc = "call"
    /\ i_fn = fn
    /\ i_result' = value
    /\ i_pc' = "done"
    /\ UNCHANGED <<i_fn, closes, window, macd_slow, macd_signal>>
    /\ UNCHANGED <<clampVars, fetchVars, btVars, ruleVars, exVars,
                 pathVars, alertVars, chartVars>>

ComputeSma == IndicatorReturns("compute_sma", compute_sma(closes, window))

ComputeEma == IndicatorReturns("compute_ema", compute_ema(closes, window))

ComputeRsi == IndicatorReturns("compute_rsi", compute_rsi(closes, window))

ComputeMacd ==
    IndicatorReturns("compute_macd",
                     compute_macd(closes, window, macd_slow, macd_signal))

ComputeBollinger ==
    IndicatorReturns("compute_bollinger", compute_bollinger(closes, window))

-----------------------------------------------------------------------------
(* Properties of the indicators, checked under SpecIndicators.             *)

IndicatorDone(fn) == i_pc = "done" /\ i_fn = fn

RECURSIVE SumOver(_, _, _)
SumOver(q, a, b) == IF a > b THEN 0 ELSE SumOver(q, a, b - 1) + q[b]

\* C22: for every window W >= 1 compute_sma is undefined at the first W-1
\* points, and at every later point T it is the mean of the W closes ending
\* there: W * SMA[T] = close[T-W+1] + ... + close[T].
C22_SmaIsTrailingMean ==
    IndicatorDone("compute_sma") =>
        /\ Len(i_result) = Len(closes)
        /\ \A T \in 1..Len(closes) :
            /\ T < window => i_result[T] = None
            /\ T >= window =>
                /\ i_result[T] # None
                /\ RMul(RInt(window), i_result[T][1])
                       = RInt(SumOver(closes, T - window + 1, T))

\* A window of two bars whose mean is not a whole number, after an
\* undefined first point.
C22_Witness ==
    /\ IndicatorDone("compute_sma")
    /\ window = 2
    /\ Len(closes) >= 2
    /\ i_result[1] = None
    /\ i_result[2] = Some(<<3, 2>>)

Constant(q) == \A j, k \in 1..Len(q) : q[j] = q[k]

\* C23: for a constant close series compute_rsi after warm-up is defined and
\* equal to 50, neither undefined nor 100.
C23_ConstantSeriesRsiIs50 ==
    (IndicatorDone("compute_rsi") /\ Constant(closes)) =>
        \A T \in window..Len(closes) : i_result[T] = Some(RInt(50))

\* C24: no indicator looks ahead: a close series that agrees with the
\* computed one on every bar up to T gives the same value at T, or is
\* undefined there too, whatever its later bars are.
C24_NoLookAhead ==
    i_pc = "done" =>
        \A other \in CloseInputs :
            \A T \in 1..Min(Len(other), Len(closes)) :
                SubSeq(other, 1, T) = SubSeq(closes, 1, T) =>
                    Indicator(i_fn, other, window, macd_slow, macd_signal)[T]
                        = i_result[T]

\* A defined moving average at a bar that is followed by a bar with another
\* close, so that series differing only after the bar exist.
C24_Witness ==
    /\ IndicatorDone("compute_ema")
    /\ window = 2
    /\ Len(closes) = MaxSeriesLen
    /\ closes[2] # closes[3]
    /\ i_result[2] # None

-----------------------------------------------------------------------------
(* The signal path of api.py: run_backtest (lines 206-270) and             *)
(* backtest_examples (lines 311-362), from the raw signals of the rule to  *)
(* the composite signal handed to backtest_strategy and to find_examples.  *)
(* rule_signals holds the raw signal of every entry of rule.signals after  *)
(* s.reindex(df.index, fill_value=0): sequences over the bars of the same  *)
(* frame. Both endpoints are run on the same frame and rule.               *)

MaxSignalBars == 4

\* lookback=3 of lines 254, 258 and 350.
SmoothLookback == 3

RawSignals(n) == [1..n -> SignalValues]

\* rule.signals names one or two signals.
RuleSignalLists(n) ==
    {<<a>> : a \in RawSignals(n)}
        \cup {<<a, b>> : a \in RawSignals(n), b \in RawSignals(n)}

RuleLogics == {"and", "or", "AND"}

\* The bars of rolling(window=w) at bar T.
RollingBars(T, w) == Max(1, T - w + 1)..T

MaxOf(S) == CHOOSE x \in S : \A y \in S : y <= x

LeastOf(S) == CHOOSE x \in S : \A y \in S : x <= y

\* sig.rolling(window=w, min_periods=mp).max(): NaN while the window holds
\* fewer than mp bars.
RollingMax(sig, T, w, mp) ==
    IF Cardinality(RollingBars(T, w)) >= mp
    THEN Some(MaxOf({sig[k] : k \in RollingBars(T, w)}))
    ELSE None

RollingMin(sig, T, w, mp) ==
    IF Cardinality(RollingBars(T, w)) >= mp
    THEN Some(LeastOf({sig[k] : k \in RollingBars(T, w)}))
    ELSE None

\* .fillna(0)
FillNa0(cell) == IF cell = None THEN 0 ELSE cell[1]

\* _smooth_signal, lines 210-221: rolling(window=lookback + 1) has
\* min_periods = window, and sm[neg < 0] = -1 is assigned last.
_smooth_signal(sig, lb) ==
    [T \in 1..Len(sig) |->
        LET pos == FillNa0(RollingMax(sig, T, lb + 1, lb + 1))
            neg == FillNa0(RollingMin(sig, T, lb + 1, lb + 1))
        IN  IF neg < 0 THEN 0 - 1 ELSE IF pos > 0 THEN 1 ELSE 0]

\* Lines 261-267 and 353-359: rolling(window=lookback, min_periods=1), the
\* negative mask assigned last; the signal as it is when lookback is 1.
SmoothMasks(s, lb) ==
    IF lb > 1
    THEN [T \in 1..Len(s) |->
             LET pos == RollingMax(s, T, lb, 1)[1]
                 neg == RollingMin(s, T, lb, 1)[1]
             IN  IF neg < 0 THEN 0 - 1 ELSE IF pos > 0 THEN 1 ELSE 0]
    ELSE s

\* Lines 258 and 350.
FinalLookback(lg) == IF lower(lg) = "and" THEN SmoothLookback ELSE 1

\* Lines 252-255: the per-signal smoothing of run_backtest.
RunSmoothed(sigs, lg) ==
    [i \in 1..Len(sigs) |->
        IF lower(lg) = "and"
        THEN _smooth_signal(sigs[i], SmoothLookback)
        ELSE sigs[i]]

\* Lines 257-270.
RunComposite(sigs, lg) ==
    combine_signals(
        [i \in 1..Len(sigs) |->
            SmoothMasks(RunSmoothed(sigs, lg)[i], FinalLookback(lg))],
        lg)

\* Lines 347-362.
ExamplesComposite(sigs, lg) ==
    combine_signals(
        [i \in 1..Len(sigs) |-> SmoothMasks(sigs[i], FinalLookback(lg))], lg)

PathIdle ==
    /\ s_pc = "off"
    /\ rule_signals = <<>>
    /\ rule_logic = ""
    /\ run_smoothed = None
    /\ run_combined = None
    /\ examples_combined = None

PathInit ==
    /\ s_pc = "on"
    /\ \E n \in 1..MaxSignalBars : rule_signals \in RuleSignalLists(n)
    /\ rule_logic \in RuleLogics
    /\ run_smoothed = None
    /\ run_combined = None
    /\ examples_combined = None

\* /backtest/run up to the call of backtest_strategy.
RunBacktestSignals ==
    /\ s_pc = "on"
    /\ run_combined = None
    /\ run_smoothed' = Some(RunSmoothed(rule_signals, rule_logic))
    /\ run_combined' = Some(RunComposite(rule_signals, rule_logic))
    /\ UNCHANGED <<s_pc, rule_signals, rule_logic, examples_combined>>
    /\ UNCHANGED <<clampVars, fetchVars, btVars, ruleVars, exVars, indVars,
                   alertVars, chartVars>>

\* /backtest/examples up to the call of find_examples.
ExamplesSignals ==
    /\ s_pc = "on"
    /\ examples_combined = None
    /\ examples_combined' = Some(ExamplesComposite(rule_signals, rule_logic))
    /\ UNCHANGED <<s_pc, rule_signals, rule_logic, run_smoothed, run_combined>>
    /\ UNCHANGED <<clampVars, fetchVars, btVars, ruleVars, exVars, indVars,
                   alertVars, chartVars>>

-----------------------------------------------------------------------------
(* Properties of the signal path, checked under SpecPath.                  *)

\* C33: for the same series and rule the composite signal that
\* /backtest/examples hands to find_examples equals, at every timestamp,
\* the one /backtest/run hands to backtest_strategy, for 'and' as for 'or'.
C33_SameCompositeSignal ==
    (run_combined # None /\ examples_combined # None) =>
        examples_combined = run_combined

\* The sign of the most recent non-zero value of sig among bars lo..T, 0 if
\* there is none.
LastSign(sig, lo, T) ==
    LET fired == {k \in Max(1, lo)..T : sig[k] # 0}
    IN  IF fired = {} THEN 0 ELSE sig[MaxOf(fired)]

\* C34: the smoothing applied before AND-combination gives at T the sign of
\* the most recent non-zero raw signal among bars T-lookback..T, 0 if there
\* is none, also when both signs fall inside the span and also during the
\* first lookback bars.
C34_SmoothingHoldsLastSign ==
    (run_smoothed # None /\ lower(rule_logic) = "and") =>
        \A i \in 1..Len(rule_signals) :
            \A T \in 1..Len(rule_signals[i]) :
                run_smoothed[1][i][T]
                    = LastSign(rule_signals[i], T - SmoothLookback, T)

-----------------------------------------------------------------------------
(* alert_engine.py: handle_price (lines 113-161) as the MQTT callback      *)
(* on_message runs it, one price message at a time.                        *)
(* thresholds is the thresholds table in id order, alert_logs the audit    *)
(* log table, both as committed; emails are the messages the SMTP server   *)
(* has accepted. clock is the wall clock in seconds. An exception of       *)
(* send_email leaves handle_price through the Session block, which rolls   *)
(* the session back, and through on_message, which ends the process until  *)
(* it is started again.                                                    *)

\* ALERT_COOLDOWN, default 300.
COOLDOWN_SECONDS == 300

MaxClock == 400

MaxEmails == 3

AlertUsers == {"a@example.com", "b@example.com"}

AlertSymbols == {"bitcoin", "ethereum"}

\* Rows as seed.py writes them: above_price and below_price set or NULL,
\* never triggered yet.
ThresholdRows ==
    [user_email : AlertUsers, symbol : AlertSymbols,
     above_price : {None, Some(100)}, below_price : {None, Some(50)},
     last_trigger_time : {None}]

\* One or two rows, one at most for a user and symbol (seed.py 38-50).
ThresholdTables ==
    {<<r>> : r \in ThresholdRows}
        \cup {t \in ThresholdRows \X ThresholdRows :
                  <<t[1].user_email, t[1].symbol>>
                      # <<t[2].user_email, t[2].symbol>>}

\* payload.get("symbol"), payload.get("last_price").
PayloadSymbols == {None} \cup {Some(s) : s \in AlertSymbols}

PayloadPrices == {None, Some(40), Some(75), Some(120)}

\* Lines 127-135.
Crossed(th, price) ==
    \/ th.above_price # None /\ price >= th.above_price[1]
    \/ th.below_price # None /\ price <= th.below_price[1]

\* direction, the assignment of line 135 after that of line 132.
Direction(th, price) ==
    IF th.below_price # None /\ price <= th.below_price[1]
    THEN "below" ELSE "above"

\* Line 141 with seconds_since (lines 39-45): never triggered is infinitely
\* long ago.
InCooldown(th, t) ==
    th.last_trigger_time # None
        /\ t - th.last_trigger_time[1] < COOLDOWN_SECONDS

\* The loop of lines 126-159 from row k on. acc holds the session's rows
\* and added log entries, the emails sent, and failed once send_email has
\* raised; fail_at is the number of the send_email call that raises.
RECURSIVE ThresholdLoop(_, _, _, _, _, _)
ThresholdLoop(acc, k, symbol, price, now, fail_at) ==
    IF k > Len(acc.rows) \/ acc.failed THEN acc
    ELSE LET th == acc.rows[k]
             mail == [to |-> th.user_email, symbol |-> symbol,
                      direction |-> Direction(th, price), at |-> now,
                      row |-> k]
             logged == [user_email |-> th.user_email, symbol |-> symbol,
                        price |-> price, timestamp |-> now]
             next ==
                 IF th.symbol # symbol \/ ~Crossed(th, price)
                        \/ InCooldown(th, now)
                 THEN acc
                 ELSE IF Len(acc.sent) + 1 = fail_at
                 THEN [acc EXCEPT !.failed = TRUE]
                 ELSE [acc EXCEPT
                          !.sent = Append(@, mail),
                          !.rows[k].last_trigger_time = Some(now),
                          !.logs = Append(@, logged)]
         IN  ThresholdLoop(next, k + 1, symbol, price, now, fail_at)

AlertIdle ==
    /\ al_pc = "off"
    /\ clock = 0
    /\ thresholds = <<>>
    /\ alert_logs = <<>>
    /\ emails = <<>>

AlertInit ==
    /\ al_pc = "listening"
    /\ clock = 0
    /\ thresholds \in ThresholdTables
    /\ alert_logs = <<>>
    /\ emails = <<>>

\* on_message with a decoded payload: handle_price, lines 113-161.
HandlePrice ==
    /\ al_pc = "listening"
    /\ \E symbol \in PayloadSymbols, price \in PayloadPrices,
          fail_at \in 0..Len(thresholds) :
         IF symbol = None \/ price = None
         THEN fail_at = 0
                /\ UNCHANGED <<al_pc, thresholds, alert_logs, emails>>
         ELSE LET out == ThresholdLoop(
                             [rows |-> thresholds, logs |-> alert_logs,
                              sent |-> <<>>, failed |-> FALSE],
                             1, symbol[1], price[1], clock, fail_at)
              IN  /\ fail_at = 0 \/ out.failed
                  /\ Len(emails) + Len(out.sent) <= MaxEmails
                  /\ emails' = emails \o out.sent
                  /\ IF out.failed
                     THEN /\ al_pc' = "crashed"
                          /\ UNCHANGED <<thresholds, alert_logs>>
                     ELSE /\ thresholds' = out.rows
                          /\ alert_logs' = out.logs
                          /\ UNCHANGED al_pc
    /\ UNCHANGED clock
    /\ UNCHANGED <<clampVars, fetchVars, btVars, ruleVars, exVars, indVars,
                   pathVars, chartVars>>

\* The process is started again: main, lines 181-203.
AlertRestart ==
    /\ al_pc = "crashed"
    /\ al_pc' = "listening"
    /\ UNCHANGED <<clock, thresholds, alert_logs, emails>>
    /\ UNCHANGED <<clampVars, fetchVars, btVars, ruleVars, exVars, indVars,
                   pathVars, chartVars>>

\* Time passes between messages.
ClockAdvance ==
    /\ al_pc # "off"
    /\ \E d \in {100, 300} :
         /\ clock + d <= MaxClock
         /\ clock' = clock + d
    /\ UNCHANGED <<al_pc, thresholds, alert_logs, emails>>
    /\ UNCHANGED <<clampVars, fetchVars, btVars, ruleVars, exVars, indVars,
                   pathVars, chartVars>>

-----------------------------------------------------------------------------
(* Properties of the alert engine, checked under SpecAlert.                *)

\* C36: after an alert email was sent for a user and symbol, no further
\* one is sent for the same user and symbol until COOLDOWN_SECONDS have
\* elapsed, whatever price updates arrive in between.
C36_AlertCooldown ==
    \A i, j \in 1..Len(emails) :
        (i < j /\ emails[i].to = emails[j].to
               /\ emails[i].symbol = emails[j].symbol)
            => emails[j].at - emails[i].at >= COOLDOWN_SECONDS

\* C37: every alert email sent is matched by a persisted audit-log entry
\* and a persisted last_trigger_time of its threshold, also when a later
\* email of the same price update fails; no audit-log entry is persisted
\* for an email that was not sent.
C37_EmailsAreAudited ==
    /\ \A i \in 1..Len(emails) :
         /\ \E k \in 1..Len(alert_logs) :
               /\ alert_logs[k].user_email = emails[i].to
               /\ alert_logs[k].symbol = emails[i].symbol
               /\ alert_logs[k].timestamp = emails[i].at
         /\ thresholds[emails[i].row].last_trigger_time # None
         /\ thresholds[emails[i].row].last_trigger_time[1] >= emails[i].at
    /\ \A k \in 1..Len(alert_logs) :
         \E i \in 1..Len(emails) :
             /\ alert_logs[k].user_email = emails[i].to
             /\ alert_logs[k].symbol = emails[i].symbol
             /\ alert_logs[k].timestamp = emails[i].at

-----------------------------------------------------------------------------
(* Two /backtest/examples requests served by one process (api.py 302-372,  *)
(* backtester.py 164-184). A request waits at the await of fetch_ohlc,     *)
(* where the other may run; from there to its response it runs without     *)
(* interruption, find_examples being synchronous. files is the directory   *)
(* /app/examples, a chart file being named by the symbol and the minute of *)
(* the signal. A chart shows the closes around the signal with the         *)
(* indicators of the request's rule laid over them.                        *)

ChartSymbols == {"bitcoin", "ethereum"}

\* The indicators_map of a request: lines 315-318.
ChartOverlays == {"macd", "bollinger"}

\* The timestamps a request's examples may fall on.
ChartTimes == {1, 2}

ChartRequests ==
    [symbol : ChartSymbols, overlay : ChartOverlays,
     fired : SUBSET ChartTimes]

\* Lines 166-167: os.path.join(output_dir, f"{symbol}_{ts:%Y%m%d%H%M}.png").
ChartPath(symbol, ts) == <<"/app/examples", symbol, ts>>

\* Lines 146-163: what the figure of a request shows for the signal at ts.
Chart(req, ts) == [symbol |-> req.symbol, signal_at |-> ts,
                   overlay |-> req.overlay]

\* Lines 140-184 for one request: every chart saved, every example listed.
SavedCharts(req) ==
    [p \in {ChartPath(req.symbol, ts) : ts \in req.fired} |->
        Chart(req, p[3])]

ExampleList(req) ==
    [k \in 1..Len(SortedSeq(req.fired)) |->
        [timestamp |-> SortedSeq(req.fired)[k],
         chart_path |-> ChartPath(req.symbol, SortedSeq(req.fired)[k])]]

ChartsIdle ==
    /\ ch_pc = "off"
    /\ requests = <<>>
    /\ files = <<>>
    /\ responses = <<>>

ChartsInit ==
    /\ ch_pc = "on"
    /\ requests \in [1..2 -> ChartRequests]
    /\ files = <<>>
    /\ responses = [r \in 1..2 |-> [stage |-> "fetching", examples |-> <<>>]]

\* The await of fetch_ohlc of request r completes (line 309).
ChartsFetched(r) ==
    /\ ch_pc = "on"
    /\ responses[r].stage = "fetching"
    /\ responses' = [responses EXCEPT ![r].stage = "fetched"]
    /\ UNCHANGED <<ch_pc, requests, files>>
    /\ UNCHANGED <<clampVars, fetchVars, btVars, ruleVars, exVars, indVars,
                   pathVars, alertVars>>

\* Lines 310-372 for request r: fig.savefig overwrites a file of the same
\* name.
ChartsRespond(r) ==
    /\ ch_pc = "on"
    /\ responses[r].stage = "fetched"
    /\ LET saved == SavedCharts(requests[r])
       IN  files' = [p \in DOMAIN files \cup DOMAIN saved |->
                        IF p \in DOMAIN saved THEN saved[p] ELSE files[p]]
    /\ responses' = [responses EXCEPT
                        ![r] = [stage |-> "responded",
                                examples |-> ExampleList(requests[r])]]
    /\ UNCHANGED <<ch_pc, requests>>
    /\ UNCHANGED <<clampVars, fetchVars, btVars, ruleVars, exVars, indVars,
                   pathVars, alertVars>>

-----------------------------------------------------------------------------
(* Properties of concurrent requests, checked under SpecCharts.            *)

\* C35: requests share no mutable state: under any interleaving of two
\* requests, what one request returns, with the chart file each returned
\* chart_path refers to, is what it would be had the other never run.
C35_RequestsAreIndependent ==
    \A r \in DOMAIN responses :
        responses[r].stage = "responded" =>
            /\ responses[r].examples = ExampleList(requests[r])
            /\ \A k \in 1..Len(responses[r].examples) :
                 LET e == responses[r].examples[k]
                 IN  /\ e.chart_path \in DOMAIN files
                     /\ files[e.chart_path] = Chart(requests[r], e.timestamp)

-----------------------------------------------------------------------------
(* Specifications.                                                         *)

ClampNext == ClampCall

\* A run of clamp_range alone: the fetcher and the backtest are off.
\* The components a specification does not run stay as constructed.
OthersIdle(running) ==
    /\ IF "clamp" \in running THEN TRUE ELSE ClampIdle
    /\ IF "fetch" \in running THEN TRUE ELSE FetchIdle
    /\ IF "backtest" \in running THEN TRUE ELSE BtIdle
    /\ IF "rules" \in running THEN TRUE ELSE RulesIdle
    /\ IF "examples" \in running THEN TRUE ELSE ExamplesIdle
    /\ IF "indicators" \in running THEN TRUE ELSE IndicatorsIdle
    /\ IF "path" \in running THEN TRUE ELSE PathIdle
    /\ IF "alert" \in running THEN TRUE ELSE AlertIdle
    /\ IF "charts" \in running THEN TRUE ELSE ChartsIdle

InitClamp == ClampInit /\ OthersIdle({"clamp"})

SpecClamp == InitClamp /\ [][ClampNext]_vars

FetchNext ==
    \/ FetchCall
    \/ BinanceResponse
    \/ BinanceWake
    \/ CoinGeckoResponse
    \/ CoinGeckoWake
    \/ Cancel
    \/ ApiRespond

InitFetch == FetchInit /\ OthersIdle({"fetch"})

SpecFetch == InitFetch /\ [][FetchNext]_vars

BtNext == BtStep \/ BtFinish

InitBacktest == BtInit /\ OthersIdle({"backtest"})

RulesNext == CombineCall \/ CrossCall \/ RsiCall \/ BollingerCall

InitRules == RulesInit /\ OthersIdle({"rules"})

SpecRules == InitRules /\ [][RulesNext]_vars

SpecBacktest == InitBacktest /\ [][BtNext]_vars

\* The whole model: one of the three runs.
ExamplesNext == ExamplesCall \/ ExampleStep \/ ExamplesReturn

InitExamples == ExamplesInit /\ OthersIdle({"examples"})

SpecExamples == InitExamples /\ [][ExamplesNext]_vars

IndicatorsNext ==
    \/ ComputeSma
    \/ ComputeEma
    \/ ComputeRsi
    \/ ComputeMacd
    \/ ComputeBollinger

InitIndicators == IndicatorsInit /\ OthersIdle({"indicators"})

SpecIndicators == InitIndicators /\ [][IndicatorsNext]_vars

PathNext == RunBacktestSignals \/ ExamplesSignals

InitPath == PathInit /\ OthersIdle({"path"})

SpecPath == InitPath /\ [][PathNext]_vars

AlertNext == HandlePrice \/ AlertRestart \/ ClockAdvance

InitAlert == AlertInit /\ OthersIdle({"alert"})

SpecAlert == InitAlert /\ [][AlertNext]_vars

ChartsNext == \E r \in 1..2 : ChartsFetched(r) \/ ChartsRespond(r)

InitCharts == ChartsInit /\ OthersIdle({"charts"})

SpecCharts == InitCharts /\ [][ChartsNext]_vars

Init ==
    \/ InitCharts
    \/ InitAlert
    \/ InitPath
    \/ InitClamp
    \/ InitFetch
    \/ InitBacktest
    \/ InitRules
    \/ InitExamples
    \/ InitIndicators

Next ==
    \/ ChartsNext
    \/ AlertNext
    \/ PathNext
    \/ ClampNext
    \/ FetchNext
    \/ BtNext
    \/ RulesNext
    \/ ExamplesNext
    \/ IndicatorsNext

Spec == Init /\ [][Next]_vars

====
